---- MODULE Spec2Model ----
(***************************************************************************)
(* A state-machine model of the m3u8Downloader download core               *)
(* (src-tauri/src/download.rs, download_monitor.rs, download_manager.rs,   *)
(* merge.rs and the start_download / cancel_download commands).            *)
(*                                                                         *)
(* One task id is followed through up to MaxRuns successive calls of       *)
(* start_download on the same output directory.  The disk (temp directory, *)
(* segments.json, progress.dat, part_i.ts) survives between calls and      *)
(* across a kill of the process; everything else is rebuilt by every call. *)
(*                                                                         *)
(* Scope of the model:                                                     *)
(*  - the cancel flag handed to download_m3u8 and the flag of the          *)
(*    registered DownloadControl are one variable (cancelled);             *)
(*  - a call of start_download begins only after the tasks and the monitor *)
(*    of the previous call have ended;                                     *)
(*  - outside SpecParse the playlist fetch, the key fetch and the write of  *)
(*    segments.json succeed in one step; failures are injected into the    *)
(*    segment fetch, the decryption and the write of the part file;        *)
(*  - SpecParse follows step 1 of download_m3u8 await by await, on every   *)
(*    body of up to MaxLines lines and every answer of the two servers;    *)
(*  - a tick of the monitor reads the flag and the counters in one step;   *)
(*    a tick that emits nothing is a stuttering step; downloaded_bytes is  *)
(*    read as any value the counter can hold;                              *)
(*  - the sleep of the backoff always ends, whatever its length;           *)
(*  - the pause flag is set in SpecPause only, which follows the monitor   *)
(*    and the calls on its DownloadControl, the counters staying as they   *)
(*    are;                                                                 *)
(*  - SpecTerm is one call under the fairness of the runtime: every task   *)
(*    that can go on does;                                                 *)
(*  - delete_download arrives during a run in SpecDelete only; a file      *)
(*    removed while a handle is open is gone from the directory (POSIX);   *)
(*  - SpecRegistry follows the DownloadManager map alone, through up to    *)
(*    MaxCalls calls of start_download on MaxIds ids, each command being   *)
(*    one step.                                                            *)
(***************************************************************************)
EXTENDS Integers, Sequences, FiniteSets, TLC

\* ------------------------------------------------------------------ bounds
\* number of .ts lines of the playlist the server publishes
MaxSeg == 2
\* successive calls of start_download that are followed
MaxRuns == 2
\* transport / decrypt / file-write failures the environment injects into one run
\* of the main specification
MaxErrors == 1
\* body chunks a segment response may carry
MaxChunks == 1
\* largest thread_count the caller passes
MaxConc == 2
\* task ids the commands of the registry are called with
MaxIds == 2
\* calls of start_download the registry is followed through
MaxCalls == 3
\* lines a playlist body carries behind its head, where every body is tried
MaxLines == 3

\* ------------------------------------------------------ program constants
\* const MAX_RETRIES: usize = 99
MAX_RETRIES == 99
\* AES block length: the IV / key / padding unit of Decryptor<Aes128>
BlockLen == 16
\* width of the integer the backoff shift is computed in (i32)
ShiftWidth == 32

\* ------------------------------------------------------------ environment
\* the builds cargo produces: "debug" checks arithmetic overflow (panic),
\* "release" wraps
Builds == {"debug", "release"}

\* HTTP statuses the segment server answers with
Statuses == {200, 503}

\* Content-Type values of a segment response
ContentTypes == {"video/mp2t", "text/html", "application/xml"}

\* value of the PKCS#7 pad found in the last decrypted block:
\* 0 stands for an invalid pad, BlockLen for a whole block of padding
PadChoices == {0, 1, BlockLen}

\* ------------------------------------------------------------- file model
NoFile == [exists |-> FALSE, len |-> 0]

\* segments.json: absent, or holding the whole serialized list (whole), or created
\* and not yet written to its end
NoMetadataFile == [exists |-> FALSE, items |-> <<>>, whole |-> TRUE]

MetadataFile(items) == [exists |-> TRUE, items |-> items, whole |-> TRUE]

TornMetadataFile == [exists |-> TRUE, items |-> <<>>, whole |-> FALSE]

MkFile(n) == [exists |-> TRUE, len |-> n]

\* format!("{}/part_{}.ts", temp_dir, ts_index)
LocalPath(i) == [dir |-> "temp", name |-> <<"part", i, "ts">>]

\* Path::new(&filename).file_name()
FileName(path) == path.name

\* index of the part file a path designates
PartIndex(path) == path.name[2]

\* ----------------------------------------------------------- the playlist
\* a playlist body: one record per line
TsLine(k) == [kind |-> "ts", ref |-> k]

\* #EXT-X-KEY:METHOD=m,URI=uri[,IV=iv]; iv is <<>> (no IV attribute) or <<s>>, s a
\* string of s.digits hex digits behind s.prefix
KeyLine(m, uri, iv) == [kind |-> "key", method |-> m, uri |-> uri, iv |-> iv]

\* the #EXTM3U line
TagLine == [kind |-> "tag"]

\* any other tag (#EXTINF, ...)
InfLine == [kind |-> "inf"]

BlankLine == [kind |-> "blank"]

IvAttr(prefix, digits) == <<[prefix |-> prefix, digits |-> digits]>>

\* a playlist of MaxSeg segment lines behind #EXTM3U, with an AES-128 key tag in
\* front of segment keyAt (keyAt = MaxSeg: no key tag); the server publishes the
\* fully encrypted and the clear one
RECURSIVE SegLines(_, _)
SegLines(i, keyAt) ==
    IF i >= MaxSeg THEN <<>>
    ELSE (IF i = keyAt THEN <<KeyLine("AES-128", 1, <<>>)>> ELSE <<>>)
         \o <<TsLine(i)>> \o SegLines(i + 1, keyAt)

Playlist(keyAt) == <<TagLine>> \o SegLines(0, keyAt)

Playlists == {Playlist(k) : k \in {0, MaxSeg}}

\* the lines a body is made of where every body is tried: two segment refs, key
\* tags of either case without an IV attribute and with one (16 bytes behind 0x,
\* 16 bytes behind 0X, one byte behind 0x), a tag that ends the encryption, and a
\* tag the parser ignores
LineChoices ==
    {TsLine(0), TsLine(1), InfLine,
     KeyLine("AES-128", 1, <<>>), KeyLine("aes-128", 2, IvAttr("0x", 2 * BlockLen)),
     KeyLine("AES-128", 1, IvAttr("0X", 2 * BlockLen)),
     KeyLine("AES-128", 2, IvAttr("0x", 2)),
     KeyLine("NONE", 0, <<>>)}

\* the sequences of at most n lines
RECURSIVE LinesUpTo(_)
LinesUpTo(n) ==
    IF n = 0 THEN {<<>>}
    ELSE LinesUpTo(n - 1) \cup
         {Append(t, l) : t \in {u \in LinesUpTo(n - 1) : Len(u) = n - 1}, l \in LineChoices}

\* the start of a body: the marker, the marker behind a blank line, or no marker
Heads == {<<TagLine>>, <<BlankLine, TagLine>>, <<InfLine>>}

Bodies == {h \o t : h \in Heads, t \in LinesUpTo(MaxLines)}

\* the statuses the playlist server answers with
PlaylistStatuses == {200, 403, 404, 500}

\* a Content-Type value, with the needles of validate_m3u8_response its lower-case
\* form contains
CtValue(text, needles) == [text |-> text, needles |-> needles]

\* the Content-Type of the playlist response: <<>> when the header is absent
PlaylistContentTypes ==
    {<<>>,
     <<CtValue("Application/X-MPEGURL", {"mpegurl"})>>,
     <<CtValue("text/html", {"text"})>>,
     <<CtValue("application/octet-stream", {"application/octet-stream"})>>,
     <<CtValue("video/mp2t", {})>>}

\* text.trim_start().starts_with("#EXTM3U")
RECURSIVE StartsWithMarker(_, _)
StartsWithMarker(text, n) ==
    IF n > Len(text) THEN FALSE
    ELSE IF text[n].kind = "blank" THEN StartsWithMarker(text, n + 1)
    ELSE text[n].kind = "tag"

\* variant without the status test (C23 depends on it)
ValidateM3u8ResponseAnyStatus(status, text, content_type) ==
    IF content_type # <<>> /\ content_type[1].needles = {} THEN "content_type"
    ELSE IF ~StartsWithMarker(text, 1) THEN "marker"
    ELSE "ok"

\* validate_m3u8_response: "ok", or the kind of the error
ValidateM3u8Response(status, text, content_type) ==
    IF status \notin 200..299
    THEN (IF status = 403 THEN "forbidden" ELSE IF status = 404 THEN "not_found" ELSE "status")
    ELSE IF content_type # <<>> /\ content_type[1].needles = {} THEN "content_type"
    ELSE IF ~StartsWithMarker(text, 1) THEN "marker"
    ELSE "ok"

\* how the key server answers a GET of a key URI: the key, an error page under a
\* 404 status, or no answer at all
KeyServers == {"ok", "status404", "neterr"}

\* client.get(&key_url).send().await?.bytes().await?: the body, whatever the status
KeyResponse(srv, uri) ==
    IF srv = "ok" THEN [uri |-> uri, status |-> 200, len |-> BlockLen]
    ELSE [uri |-> uri, status |-> 404, len |-> 9]

\* variant that compares the method as written (C32 depends on the upper-casing)
ToUppercaseAsWritten(m) == m

\* method.to_uppercase()
ToUppercase(m) == IF m = "aes-128" THEN "AES-128" ELSE m

\* hex_to_bytes(hex).ok() on a string of `digits` characters, all hex digits or not
HexToBytes(digits, allHex) ==
    IF digits % 2 # 0 \/ ~allHex THEN <<>> ELSE <<[len |-> digits \div 2]>>

\* iv_raw.strip_prefix("0x").unwrap_or(iv_raw), then hex_to_bytes: a prefix other
\* than the lower-case one stays in the string and is no hex
IvOf(iv_str) ==
    IF iv_str = <<>> THEN <<>>
    ELSE IF iv_str[1].prefix = "0x"
         THEN HexToBytes(iv_str[1].digits, TRUE)
         ELSE HexToBytes(iv_str[1].digits + 2, FALSE)

\* Some(EncryptionInfo { key, iv })
EncryptionInfo(key, iv) == <<[key |-> key, iv |-> iv]>>

\* the AES-128 key tags of a body: each one costs a GET of its URI
KeyFetches(lines) ==
    Cardinality({n \in 1..Len(lines) :
                    lines[n].kind = "key" /\ ToUppercase(lines[n].method) = "AES-128"})

\* the line loop of download_m3u8: rolling current_encryption and ts_index, the
\* key server answering as srv
RECURSIVE ParseLines(_, _, _, _, _)
ParseLines(lines, n, current_encryption, ts_index, srv) ==
    IF n > Len(lines) THEN <<>>
    ELSE LET line == lines[n] IN
         IF line.kind = "key"
         THEN ParseLines(lines, n + 1,
                         IF ToUppercase(line.method) = "AES-128"
                         THEN EncryptionInfo(KeyResponse(srv, line.uri), IvOf(line.iv))
                         ELSE <<>>,
                         ts_index, srv)
         ELSE IF line.kind = "ts"
         THEN <<[index |-> ts_index, url |-> <<"url", line.ref>>,
                 local_path |-> LocalPath(ts_index),
                 encryption |-> current_encryption]>>
              \o ParseLines(lines, n + 1, current_encryption, ts_index + 1, srv)
         ELSE ParseLines(lines, n + 1, current_encryption, ts_index, srv)

ParsePlaylist(lines, srv) == ParseLines(lines, 1, <<>>, 0, srv)

\* Vec<SegmentMetadata> as serialized to segments.json: the index is not stored
ToMetadata(segs) ==
    [k \in 1..Len(segs) |->
        [url |-> segs[k].url, local_path |-> segs[k].local_path,
         encryption |-> segs[k].encryption]]

\* variant that numbers the reloaded descriptors from 1 (C21 depends on the index
\* being the position counted from 0)
FromMetadataOneBased(items) ==
    [k \in 1..Len(items) |->
        [index |-> k, url |-> items[k].url, local_path |-> items[k].local_path,
         encryption |-> items[k].encryption]]

\* segments_metadata.into_iter().enumerate(): the index is the position
FromMetadata(items) ==
    [k \in 1..Len(items) |->
        [index |-> k - 1, url |-> items[k].url, local_path |-> items[k].local_path,
         encryption |-> items[k].encryption]]

\* variant that lists the part files in descending index (C4 depends on the order)
FinalTsFilesReversed(segs) == [k \in 1..Len(segs) |-> segs[Len(segs) + 1 - k].local_path]

\* final_ts_files: the local paths in descriptor order
FinalTsFiles(segs) == [k \in 1..Len(segs) |-> segs[k].local_path]

\* -------------------------------------------------------------- variables
VARIABLES
    \* environment
    playlist, concurrency, build, flaky, errBudget, errLeft, runsLeft,
    \* disk
    tempDir, segJson, progress, part,
    \* registry and cancel flag of the task
    registered, cancelled,
    \* download_m3u8
    pc, result, all_ts_segments, final_ts_files, pending_downloads,
    completed_segment_names, total_chunks, completed_chunks, total_bytes,
    \* segment tasks
    tpc, attempt, got, resp, tres, permits,
    \* monitor task: its position and the last snapshot it emitted (<<>>: none yet)
    mpc, last_data,
    \* remux collaborator
    remux,
    \* DownloadControl: the pause flag, and the Notified future the monitor waits on
    \* ("none": not created, "waiting": created and not woken, "woken")
    paused, notified,
    \* one call of download_file from the end of its body on: its arguments, its
    \* position, iv_vec, data and what it wrote
    download_file,
    \* one resolution of a ref of the playlist against the playlist URL
    url_call,
    \* observation
    obs,
    \* DownloadManager: tasks maps an id to the call whose DownloadTask is registered
    \* (0: no entry); calls holds, per call of start_download, its id, its
    \* DownloadControl and whether it has returned; dirs is the set of ids whose
    \* temp directory exists; last is the command that ran last
    tasks, calls, dirs, last

envVars == <<playlist, concurrency, build, flaky, errBudget, errLeft, runsLeft>>

diskVars == <<tempDir, segJson, progress, part>>

regVars == <<registered, cancelled>>

mainVars == <<pc, result, all_ts_segments, final_ts_files, pending_downloads,
              completed_segment_names, total_chunks, completed_chunks, total_bytes>>

taskVars == <<tpc, attempt, got, resp, tres, permits>>

mgrVars == <<tasks, calls, dirs, last>>

pauseVars == <<paused, notified>>

vars == <<envVars, diskVars, regVars, mainVars, taskVars, mpc, last_data, remux, obs,
          mgrVars, pauseVars, download_file, url_call>>

Ids == 1..MaxIds

Seg == 0..(MaxSeg - 1)

\* the segments a pending list holds, as a set of indices
IndexSet(segs) == {segs[k].index : k \in 1..Len(segs)}

\* the lines of progress.dat as read by the admission: a HashSet of the non-blank lines
LoadManifest(file) == IF file.exists THEN {file.lines[k] : k \in 1..Len(file.lines)} ELSE {}

\* the admission loop of download_m3u8 (step 2) from descriptor k on: acc carries
\* pending_downloads and the metrics counters
RECURSIVE AdmitFrom(_, _, _, _, _)
AdmitFrom(segs, k, names, files, acc) ==
    IF k > Len(segs) THEN acc
    ELSE LET s == segs[k]
             f == files[PartIndex(s.local_path)]
             enqueue == [acc EXCEPT !.pending = Append(@, s)]
         IN  IF FileName(s.local_path) \in names
             THEN IF f.exists /\ f.len > 0
                  THEN AdmitFrom(segs, k + 1, names, files,
                                 [acc EXCEPT !.completed = @ + 1,
                                             !.total_bytes = @ + f.len])
                  ELSE AdmitFrom(segs, k + 1, names, files, enqueue)
             ELSE AdmitFrom(segs, k + 1, names, files, enqueue)

\* variant that trusts the manifest alone, without looking at the part file
\* (C2 depends on the existence and size test)
AdmissionByName(segs, names, files) ==
    LET listed(k) == FileName(segs[k].local_path) \in names
        kept == SelectSeq(segs, LAMBDA d : FileName(d.local_path) \notin names)
        done == {k \in 1..Len(segs) : listed(k)}
    IN  [pending |-> kept, completed |-> Cardinality(done), total_bytes |-> 0]

\* variant that counts a finished segment and enqueues it all the same (C20 depends
\* on a counted segment staying out of the queue)
AdmissionRequeue(segs, names, files) ==
    [AdmitFrom(segs, 1, names, files, [pending |-> <<>>, completed |-> 0, total_bytes |-> 0])
        EXCEPT !.pending = segs]

Admission(segs, names, files) ==
    AdmitFrom(segs, 1, names, files, [pending |-> <<>>, completed |-> 0, total_bytes |-> 0])

\* ------------------------------------------------------------------- Init
NoRemux == [called |-> FALSE, files |-> <<>>, complete |-> FALSE]

FreshObs == [runNo |-> 0, dirKept |-> FALSE, linesAtStart |-> 0, cached |-> FALSE,
             extCancel |-> FALSE, fetched |-> {},
             playlistGets |-> 0, keyGets |-> 0, response |-> <<>>, keyServer |-> <<>>,
             allDone |-> FALSE,
             cancelAtCheck |-> FALSE,
             prevAllDone |-> FALSE, prevRemux |-> <<>>, lastResult |-> "none"]

NoCommand == [op |-> "none", id |-> 0, prev |-> 0, ok |-> TRUE]

\* no call of download_file is followed
NoCall == [pc |-> "none"]

InitCommon ==
    /\ tasks = [id \in Ids |-> 0]
    /\ calls = <<>>
    /\ dirs = {}
    /\ last = NoCommand
    /\ paused = FALSE
    /\ notified = "none"
    /\ download_file = NoCall
    /\ url_call = NoCall
    /\ tempDir = FALSE
    /\ segJson = NoMetadataFile
    /\ progress = [exists |-> FALSE, lines |-> <<>>]
    /\ part = [i \in Seg |-> NoFile]
    /\ registered = FALSE
    /\ cancelled = FALSE
    /\ pc = "idle"
    /\ result = "none"
    /\ all_ts_segments = <<>>
    /\ final_ts_files = <<>>
    /\ pending_downloads = <<>>
    /\ completed_segment_names = {}
    /\ total_chunks = 0
    /\ completed_chunks = 0
    /\ total_bytes = 0
    /\ tpc = [i \in Seg |-> "none"]
    /\ attempt = [i \in Seg |-> 0]
    /\ got = [i \in Seg |-> 0]
    /\ resp = [i \in Seg |-> 0]
    /\ tres = [i \in Seg |-> "none"]
    /\ permits = 0
    /\ mpc = "none"
    /\ last_data = <<>>
    /\ remux = NoRemux
    /\ obs = FreshObs

\* the main specification: one call of start_download on a fresh output directory,
\* with a few failures (too few for the backoff shift to reach the integer's width,
\* so one build stands for both)
Init ==
    /\ InitCommon
    /\ playlist \in Playlists
    /\ concurrency \in 1..MaxConc
    /\ build = "release"
    /\ flaky = Seg
    /\ errBudget = MaxErrors
    /\ errLeft = 0
    /\ runsLeft = 1

\* successive calls on the same output directory, the process killed at any point
InitResume ==
    /\ InitCommon
    /\ playlist \in Playlists
    /\ concurrency \in 1..MaxConc
    /\ build = "release"
    /\ flaky = Seg
    /\ errBudget = MaxErrors
    /\ errLeft = 0
    /\ runsLeft = MaxRuns

\* ---------------------------------------------- start_download (commands.rs)
TasksEnded == \A i \in Seg : tpc[i] \in {"none", "done"}

\* start_download up to the call of download_m3u8: temp dir, DownloadTask, add_task
StartDownload ==
    /\ pc = "idle"
    /\ runsLeft > 0
    /\ TasksEnded
    /\ mpc # "run"
    /\ runsLeft' = runsLeft - 1
    /\ errLeft' = errBudget
    /\ tempDir' = TRUE
    /\ registered' = TRUE
    /\ cancelled' = FALSE
    /\ pc' = "load"
    /\ result' = "none"
    /\ all_ts_segments' = <<>>
    /\ final_ts_files' = <<>>
    /\ pending_downloads' = <<>>
    /\ completed_segment_names' = {}
    /\ total_chunks' = 0
    /\ completed_chunks' = 0
    /\ total_bytes' = 0
    /\ tpc' = [i \in Seg |-> "none"]
    /\ attempt' = [i \in Seg |-> 0]
    /\ got' = [i \in Seg |-> 0]
    /\ resp' = [i \in Seg |-> 0]
    /\ tres' = [i \in Seg |-> "none"]
    /\ permits' = 0
    /\ mpc' = "none"
    /\ last_data' = <<>>
    /\ remux' = NoRemux
    /\ obs' = [obs EXCEPT !.runNo = @ + 1, !.dirKept = tempDir,
                          !.linesAtStart = Len(progress.lines), !.cached = segJson.exists,
                          !.extCancel = FALSE,
                          !.fetched = {},
                          !.playlistGets = 0, !.keyGets = 0,
                          !.response = <<>>, !.keyServer = <<>>,
                          !.allDone = FALSE, !.cancelAtCheck = FALSE,
                          !.prevAllDone = obs.allDone,
                          !.prevRemux = remux.files,
                          !.lastResult = "none"]
    /\ UNCHANGED <<mgrVars, pauseVars, download_file, url_call, playlist, concurrency, build,
                   flaky,
                   errBudget, segJson,
                   progress, part>>

\* ------------------------------------------------- download_m3u8, step 1
\* create_dir_all(temp_dir), then load segments.json when it exists, else fetch and
\* parse the playlist and save it; here the playlist and the key server answer well
\* and nothing comes between the steps
LoadOrParse ==
    /\ pc = "load"
    /\ tempDir' = TRUE
    /\ IF segJson.exists
       THEN /\ all_ts_segments' = IF segJson.whole THEN FromMetadata(segJson.items) ELSE <<>>
            /\ UNCHANGED <<segJson, obs>>
       ELSE /\ StartsWithMarker(playlist, 1)
            /\ all_ts_segments' = ParsePlaylist(playlist, "ok")
            /\ segJson' = MetadataFile(ToMetadata(all_ts_segments'))
            /\ obs' = [obs EXCEPT !.playlistGets = @ + 1,
                                  !.keyGets = @ + KeyFetches(playlist),
                                  !.response = <<[status |-> 200, content_type |-> <<>>]>>,
                                  !.keyServer = IF KeyFetches(playlist) > 0
                                                THEN <<"ok">> ELSE <<>>]
    /\ IF segJson.exists /\ ~segJson.whole
       THEN pc' = "ret" /\ result' = "err_json"
       ELSE IF all_ts_segments' = <<>>
       THEN pc' = "ret" /\ result' = "err_no_segments"
       ELSE pc' = "admit" /\ result' = result
    /\ UNCHANGED <<mgrVars, pauseVars, download_file, url_call, envVars, progress, part,
                   regVars,
                   final_ts_files,
                   pending_downloads, completed_segment_names, total_chunks,
                   completed_chunks, total_bytes, taskVars, mpc, last_data, remux>>

\* the temp directory was removed while the playlist was fetched: tokio::fs::write
\* of segments.json fails and download_m3u8 returns the error
MetadataWriteError ==
    /\ pc = "load"
    /\ ~tempDir
    /\ pc' = "ret"
    /\ result' = "err_io"
    /\ UNCHANGED <<mgrVars, pauseVars, download_file, url_call, envVars, diskVars, regVars,
                   all_ts_segments, final_ts_files,
                   pending_downloads, completed_segment_names, total_chunks,
                   completed_chunks, total_bytes, taskVars, mpc, last_data, remux, obs>>

\* step 2: metrics, final_ts_files, manifest load and the admission loop
Admit ==
    /\ pc = "admit"
    /\ total_chunks' = Len(all_ts_segments)
    /\ final_ts_files' = FinalTsFiles(all_ts_segments)
    /\ completed_segment_names' = LoadManifest(progress)
    /\ LET a == Admission(all_ts_segments, completed_segment_names', part)
       IN  /\ pending_downloads' = a.pending
           /\ completed_chunks' = a.completed
           /\ total_bytes' = a.total_bytes
    /\ pc' = "spawn"
    /\ UNCHANGED <<mgrVars, pauseVars, download_file, url_call, envVars, diskVars, regVars,
                   result,
                   all_ts_segments, taskVars,
                   mpc, last_data, remux, obs>>

\* steps 3 and 4: start the monitor, open progress.dat for append, spawn the tasks
Spawn ==
    /\ pc = "spawn"
    /\ tempDir
    /\ mpc' = "run"
    /\ last_data' = <<>>
    /\ progress' = [progress EXCEPT !.exists = TRUE]
    /\ tpc' = [i \in Seg |-> IF i \in IndexSet(pending_downloads) THEN "queued" ELSE "none"]
    /\ permits' = concurrency
    /\ pc' = "join"
    /\ UNCHANGED <<mgrVars, pauseVars, download_file, url_call, envVars, tempDir, segJson, part,
                   regVars, result,
                   all_ts_segments,
                   final_ts_files, pending_downloads, completed_segment_names,
                   total_chunks, completed_chunks, total_bytes, attempt, got, resp,
                   tres, remux, obs>>

\* the temp directory is gone: the monitor is started, the open of progress.dat
\* fails and download_m3u8 returns the error with no task spawned
ManifestOpenError ==
    /\ pc = "spawn"
    /\ ~tempDir
    /\ mpc' = "run"
    /\ last_data' = <<>>
    /\ pc' = "ret"
    /\ result' = "err_io"
    /\ UNCHANGED <<mgrVars, pauseVars, download_file, url_call, envVars, diskVars, regVars,
                   all_ts_segments, final_ts_files,
                   pending_downloads, completed_segment_names, total_chunks,
                   completed_chunks, total_bytes, taskVars, remux, obs>>

\* ------------------------------------------------ the segment task (step 4)
Descriptor(i) == all_ts_segments[i + 1]

\* how a task that returned Ok(()) got there: after Success, after Skipped, after
\* Cancelled, or at the cancel check on top of the loop
OkResults == {"success", "skipped", "cancelled", "abandoned"}

\* variant whose permit is not given back when the task ends (C40 depends on the
\* drop of _permit)
TaskReturnsKeepsPermit(i, how) ==
    /\ tpc' = [tpc EXCEPT ![i] = "done"]
    /\ tres' = [tres EXCEPT ![i] = how]
    /\ attempt' = [attempt EXCEPT ![i] = 0]
    /\ got' = [got EXCEPT ![i] = 0]
    /\ resp' = [resp EXCEPT ![i] = 0]
    /\ permits' = permits

\* the task returns (Ok, Err or panic): its locals and its permit are dropped
TaskReturns(i, how) ==
    /\ tpc' = [tpc EXCEPT ![i] = "done"]
    /\ tres' = [tres EXCEPT ![i] = how]
    /\ attempt' = [attempt EXCEPT ![i] = 0]
    /\ got' = [got EXCEPT ![i] = 0]
    /\ resp' = [resp EXCEPT ![i] = 0]
    /\ permits' = permits + 1

\* the task goes on to its next await
TaskMoves(i, to) ==
    /\ tpc' = [tpc EXCEPT ![i] = to]
    /\ UNCHANGED <<tres, attempt, got, resp, permits>>

\* variant that does not wait for a permit (C15 depends on the semaphore)
AcquireUnbounded(i) ==
    /\ tpc[i] = "queued"
    /\ permits' = permits - 1
    /\ tpc' = [tpc EXCEPT ![i] = "loop"]
    /\ attempt' = [attempt EXCEPT ![i] = 1]
    /\ UNCHANGED <<mgrVars, pauseVars, download_file, url_call, envVars, diskVars, regVars,
                   mainVars,
                   got, resp, tres, mpc,
                   last_data, remux,
                   obs>>

\* semaphore.acquire().await
Acquire(i) ==
    /\ tpc[i] = "queued"
    /\ permits > 0
    /\ permits' = permits - 1
    /\ tpc' = [tpc EXCEPT ![i] = "loop"]
    /\ attempt' = [attempt EXCEPT ![i] = 1]
    /\ UNCHANGED <<mgrVars, pauseVars, download_file, url_call, envVars, diskVars, regVars,
                   mainVars,
                   got, resp, tres, mpc,
                   last_data, remux,
                   obs>>

\* variant that sends the GET without looking at the cancel flag (C25 depends on
\* the check on top of the loop)
LoopTopUnchecked(i) ==
    /\ tpc[i] = "loop"
    /\ TaskMoves(i, "stream")
    /\ obs' = [obs EXCEPT !.fetched = @ \cup {i}]
    /\ UNCHANGED <<mgrVars, pauseVars, download_file, url_call, envVars, diskVars, regVars,
                   mainVars,
                   mpc, last_data, remux>>

\* top of the retry loop: the cancel check, then download_file sends its GET
LoopTop(i) ==
    /\ tpc[i] = "loop"
    /\ IF cancelled
       THEN /\ TaskReturns(i, "abandoned")
            /\ UNCHANGED obs
       ELSE /\ TaskMoves(i, "stream")
            /\ obs' = [obs EXCEPT !.fetched = @ \cup {i}]
    /\ UNCHANGED <<mgrVars, pauseVars, download_file, url_call, envVars, diskVars, regVars,
                   mainVars,
                   mpc, last_data, remux>>

\* the base delay of the backoff: (1 << (attempt - 1)).min(10) computed in i32;
\* the shift amount wraps to the integer's width in a release build
ShiftAmount(a) == (a - 1) % ShiftWidth

Shl1(n) ==
    IF n = ShiftWidth - 1 THEN 0 - 2 ^ (ShiftWidth - 2) - 2 ^ (ShiftWidth - 2) ELSE 2 ^ n

Min(a, b) == IF a < b THEN a ELSE b

BaseDelaySecs(a) == Min(Shl1(ShiftAmount(a)), 10)

\* a debug build panics on a shift by the integer's width or more
ShiftPanics(a) == build = "debug" /\ a - 1 >= ShiftWidth

\* variant whose last attempt does not store the cancel flag (C8 depends on it)
ErrArmNoCancel(i) ==
    IF attempt[i] < MAX_RETRIES
    THEN IF ShiftPanics(attempt[i])
         THEN /\ TaskReturns(i, "panic")
              /\ UNCHANGED <<cancelled, obs>>
         ELSE /\ TaskMoves(i, "backoff")
              /\ UNCHANGED <<cancelled, obs>>
    ELSE /\ TaskReturns(i, "err")
         /\ UNCHANGED <<cancelled, obs>>

\* the Err(e) arm of the task: back off and retry, or give up and cancel the run
ErrArm(i) ==
    IF attempt[i] < MAX_RETRIES
    THEN IF ShiftPanics(attempt[i])
         THEN /\ TaskReturns(i, "panic")
              /\ UNCHANGED <<cancelled, obs>>
         ELSE /\ TaskMoves(i, "backoff")
              /\ UNCHANGED <<cancelled, obs>>
    ELSE /\ cancelled' = TRUE
         /\ TaskReturns(i, "err")
         /\ UNCHANGED obs

\* a failure of segment i's fetch is taken from the run's budget
SpendError(i) ==
    /\ i \in flaky
    /\ errLeft > 0
    /\ errLeft' = errLeft - 1
    /\ UNCHANGED <<mgrVars, pauseVars, download_file, url_call, playlist, concurrency, build,
                   flaky,
                   errBudget, runsLeft>>

\* request.send() or response.chunk() fails: download_file returns Err
NetError(i) ==
    /\ tpc[i] = "stream"
    /\ SpendError(i)
    /\ ErrArm(i)
    /\ UNCHANGED <<diskVars, registered, mainVars, mpc, last_data, remux>>

\* variant whose Cancelled return leaves the file at output_path alone (C27 depends
\* on the remove_file)
RecvChunkKeepsFile(i) ==
    /\ tpc[i] = "stream"
    /\ got[i] < MaxChunks
    /\ IF cancelled
       THEN /\ part' = part
            /\ TaskReturns(i, "cancelled")
       ELSE /\ got' = [got EXCEPT ![i] = @ + 1]
            /\ UNCHANGED <<part, tpc, tres, attempt, resp, permits>>
    /\ UNCHANGED <<mgrVars, pauseVars, download_file, url_call, envVars, tempDir, segJson,
                   progress,
                   regVars, mainVars, mpc,
                   last_data, remux, obs>>

\* response.chunk() yields a chunk: the cancel check, then the chunk is buffered
\* and recorded in the metrics
RecvChunk(i) ==
    /\ tpc[i] = "stream"
    /\ got[i] < MaxChunks
    /\ IF cancelled
       THEN /\ part' = [part EXCEPT ![PartIndex(Descriptor(i).local_path)] = NoFile]
            /\ TaskReturns(i, "cancelled")
       ELSE /\ got' = [got EXCEPT ![i] = @ + 1]
            /\ UNCHANGED <<part, tpc, tres, attempt, resp, permits>>
    /\ UNCHANGED <<mgrVars, pauseVars, download_file, url_call, envVars, tempDir, segJson,
                   progress,
                   regVars, mainVars, mpc,
                   last_data, remux,
                   obs>>

\* HTML / XML gate of download_file
IsMarkup(ct) == ct = "text/html" \/ ct \in {"application/xml"}

\* decrypt_padded_mut::<Pkcs7> on n bytes whose last block carries pad:
\* the length of the plaintext, or -1 for an unpad error
DecryptedLen(n, pad) ==
    IF n % BlockLen # 0 \/ pad < 1 \/ pad > BlockLen THEN 0 - 1 ELSE n - pad

\* the bytes download_file writes for a body of n bytes: raw, or decrypted
DataLen(enc, n, pad) == IF enc # <<>> THEN DecryptedLen(n, pad) ELSE n

\* the body has ended and passes for Skipped: empty, or markup by its Content-Type
BodySkipped(i) ==
    /\ tpc[i] = "stream"
    /\ \E ct \in ContentTypes : got[i] = 0 \/ IsMarkup(ct)
    /\ TaskReturns(i, "skipped")
    /\ UNCHANGED <<mgrVars, pauseVars, download_file, url_call, envVars, diskVars, regVars,
                   mainVars,
                   mpc, last_data, remux,
                   obs>>

\* the body has ended, is not empty and is no markup: decryption failed
DecryptError(i) ==
    /\ tpc[i] = "stream"
    /\ got[i] > 0
    /\ \E pad \in PadChoices : DataLen(Descriptor(i).encryption, got[i] * BlockLen, pad) < 0
    /\ SpendError(i)
    /\ ErrArm(i)
    /\ UNCHANGED <<diskVars, registered, mainVars, mpc, last_data, remux>>

\* the body has ended, is not empty and is no markup, whatever its HTTP status:
\* decryption, File::create and write_all succeed, Success(output_path)
BodyWritten(i) ==
    /\ tpc[i] = "stream"
    /\ got[i] > 0
    /\ tempDir
    /\ \E st \in Statuses, pad \in PadChoices :
         LET d == Descriptor(i)
             n == DataLen(d.encryption, got[i] * BlockLen, pad)
         IN  /\ n >= 0
             /\ part' = [part EXCEPT ![PartIndex(d.local_path)] = MkFile(n)]
             /\ resp' = [resp EXCEPT ![i] = st]
    /\ tpc' = [tpc EXCEPT ![i] = "written"]
    /\ UNCHANGED <<tres, attempt, got, permits>>
    /\ UNCHANGED <<mgrVars, pauseVars, download_file, url_call, envVars, tempDir, segJson,
                   progress,
                   regVars, mainVars, mpc,
                   last_data, remux,
                   obs>>

\* File::create succeeds and write_all fails: the file is left truncated
WriteError(i) ==
    /\ tpc[i] = "stream"
    /\ got[i] > 0
    /\ tempDir
    /\ SpendError(i)
    /\ part' = [part EXCEPT ![PartIndex(Descriptor(i).local_path)] = MkFile(0)]
    /\ ErrArm(i)
    /\ UNCHANGED <<tempDir, segJson, progress, registered, mainVars, mpc, last_data, remux>>

\* the temp directory is gone: File::create fails, download_file returns Err
CreateError(i) ==
    /\ tpc[i] = "stream"
    /\ got[i] > 0
    /\ ~tempDir
    /\ \E pad \in PadChoices : DataLen(Descriptor(i).encryption, got[i] * BlockLen, pad) >= 0
    /\ ErrArm(i)
    /\ UNCHANGED <<mgrVars, pauseVars, download_file, url_call, envVars, diskVars, registered,
                   mainVars, mpc, last_data, remux>>

\* tokio::time::sleep(total_delay) is over: next attempt
BackoffDone(i) ==
    /\ tpc[i] = "backoff"
    /\ tpc' = [tpc EXCEPT ![i] = "loop"]
    /\ attempt' = [attempt EXCEPT ![i] = @ + 1]
    /\ got' = [got EXCEPT ![i] = 0]
    /\ UNCHANGED <<mgrVars, pauseVars, download_file, url_call, envVars, diskVars, regVars,
                   mainVars,
                   resp, tres, permits,
                   mpc, last_data, remux,
                   obs>>

\* variant that goes on to the counter without writing the line (C37 depends on the
\* append coming first)
AppendManifestNoWrite(i) ==
    /\ tpc[i] = "written"
    /\ progress' = progress
    /\ TaskMoves(i, "appended")
    /\ UNCHANGED <<mgrVars, pauseVars, download_file, url_call, envVars, tempDir, segJson,
                   part, regVars, mainVars, mpc, last_data, remux, obs>>

\* Success(f): the basename is appended to progress.dat under the writer's mutex
\* (a write through the handle of a removed file leaves nothing in the directory)
AppendManifest(i) ==
    /\ tpc[i] = "written"
    /\ progress' = IF progress.exists
                   THEN [progress EXCEPT
                           !.lines = Append(@, FileName(Descriptor(i).local_path))]
                   ELSE progress
    /\ TaskMoves(i, "appended")
    /\ UNCHANGED <<mgrVars, pauseVars, download_file, url_call, envVars, tempDir, segJson, part,
                   regVars, mainVars, mpc,
                   last_data, remux, obs>>

\* completed_chunks.fetch_add(1) and return Ok
CountCompleted(i) ==
    /\ tpc[i] = "appended"
    /\ completed_chunks' = completed_chunks + 1
    /\ TaskReturns(i, "success")
    /\ UNCHANGED <<mgrVars, pauseVars, download_file, url_call, envVars, diskVars, regVars,
                   pc, result,
                   all_ts_segments,
                   final_ts_files, pending_downloads, completed_segment_names,
                   total_chunks, total_bytes, mpc, last_data, remux, obs>>

\* --------------------------------------------- download_m3u8, steps 5 and 6
TaskOf(k) == pending_downloads[k].index

\* handle k is the first whose task ended in Err or in a panic, every earlier one Ok
FirstFailure(k) ==
    /\ tpc[TaskOf(k)] = "done"
    /\ tres[TaskOf(k)] \in {"err", "panic"}
    /\ \A j \in 1..(k - 1) : tpc[TaskOf(j)] = "done" /\ tres[TaskOf(j)] \in OkResults

AllJoinedOk ==
    \A k \in 1..Len(pending_downloads) :
        tpc[TaskOf(k)] = "done" /\ tres[TaskOf(k)] \in OkResults

\* for handle in handles { handle.await??; }: the first Err (or JoinError) returns at once
JoinTasks ==
    /\ pc = "join"
    /\ \/ /\ \E k \in 1..Len(pending_downloads) : FirstFailure(k)
          /\ pc' = "ret"
          /\ result' = "err_task"
       \/ /\ AllJoinedOk
          /\ pc' = "check"
          /\ result' = result
    /\ UNCHANGED <<mgrVars, pauseVars, download_file, url_call, envVars, diskVars, regVars,
                   all_ts_segments, final_ts_files,
                   pending_downloads, completed_segment_names, total_chunks,
                   completed_chunks, total_bytes, taskVars, mpc, last_data, remux, obs>>

\* variant that lets an incomplete, uncancelled run through (C10 depends on the
\* failure branch)
FinalCheckLenient ==
    /\ pc = "check"
    /\ pc' = "await_monitor"
    /\ cancelled' = cancelled
    /\ obs' = [obs EXCEPT !.allDone = (completed_chunks = total_chunks),
                          !.cancelAtCheck = cancelled]
    /\ UNCHANGED <<mgrVars, pauseVars, download_file, url_call, envVars, diskVars,
                   registered, result,
                   all_ts_segments,
                   final_ts_files, pending_downloads, completed_segment_names,
                   total_chunks, completed_chunks, total_bytes, taskVars, mpc, last_data, remux>>

\* the completeness check: completed_count != total_chunks, cancel flag
FinalCheck ==
    /\ pc = "check"
    /\ IF completed_chunks # total_chunks
       THEN IF cancelled
            THEN pc' = "await_monitor" /\ cancelled' = cancelled
            ELSE pc' = "await_monitor_failed" /\ cancelled' = TRUE
       ELSE pc' = "await_monitor" /\ cancelled' = cancelled
    /\ obs' = [obs EXCEPT !.allDone = (completed_chunks = total_chunks),
                          !.cancelAtCheck = cancelled]
    /\ UNCHANGED <<mgrVars, pauseVars, download_file, url_call, envVars, diskVars,
                   registered, result,
                   all_ts_segments,
                   final_ts_files, pending_downloads, completed_segment_names,
                   total_chunks, completed_chunks, total_bytes, taskVars, mpc, last_data, remux>>

\* variant that goes on without waiting for the monitor to end (C30 depends on
\* speed_handle.await)
AwaitMonitorNoJoin ==
    /\ pc \in {"await_monitor", "await_monitor_failed"}
    /\ IF pc = "await_monitor_failed"
       THEN pc' = "ret" /\ result' = "err_missing"
       ELSE IF cancelled
            THEN pc' = "ret" /\ result' = "ok"
            ELSE pc' = "merge" /\ result' = result
    /\ UNCHANGED <<mgrVars, pauseVars, download_file, url_call, envVars, diskVars, regVars,
                   all_ts_segments, final_ts_files,
                   pending_downloads, completed_segment_names, total_chunks,
                   completed_chunks, total_bytes, taskVars, mpc, last_data, remux, obs>>

\* variant without the last look at the cancel flag (C5 depends on it)
AwaitMonitorUnchecked ==
    /\ pc \in {"await_monitor", "await_monitor_failed"}
    /\ mpc = "done"
    /\ IF pc = "await_monitor_failed"
       THEN pc' = "ret" /\ result' = "err_missing"
       ELSE pc' = "merge" /\ result' = result
    /\ UNCHANGED <<mgrVars, pauseVars, download_file, url_call, envVars, diskVars, regVars,
                   all_ts_segments, final_ts_files,
                   pending_downloads, completed_segment_names, total_chunks,
                   completed_chunks, total_bytes, taskVars, mpc, last_data, remux, obs>>

\* speed_handle.await, then the last look at the cancel flag
AwaitMonitor ==
    /\ pc \in {"await_monitor", "await_monitor_failed"}
    /\ mpc = "done"
    /\ IF pc = "await_monitor_failed"
       THEN pc' = "ret" /\ result' = "err_missing"
       ELSE IF cancelled
            THEN pc' = "ret" /\ result' = "ok"
            ELSE pc' = "merge" /\ result' = result
    /\ UNCHANGED <<mgrVars, pauseVars, download_file, url_call, envVars, diskVars, regVars,
                   all_ts_segments, final_ts_files,
                   pending_downloads, completed_segment_names, total_chunks,
                   completed_chunks, total_bytes, taskVars, mpc, last_data, remux, obs>>

\* the input list as merge_files writes it to concat.txt, one entry per file, in order
ConcatList(ts_files) == [k \in 1..Len(ts_files) |-> ts_files[k]]

InputsComplete(ts_files) ==
    \A k \in 1..Len(ts_files) :
        part[PartIndex(ts_files[k])].exists /\ part[PartIndex(ts_files[k])].len > 0

\* merge_files: concat.txt is written into the temp directory, then the remux
\* collaborator runs on final_ts_files and succeeds or fails
Merge ==
    /\ pc = "merge"
    /\ IF tempDir
       THEN /\ remux' = [called |-> TRUE, files |-> ConcatList(final_ts_files),
                         complete |-> InputsComplete(final_ts_files)]
            /\ \E ok \in BOOLEAN : result' = IF ok THEN "ok" ELSE "err_merge"
       ELSE /\ remux' = remux
            /\ result' = "err_merge"
    /\ pc' = "ret"
    /\ UNCHANGED <<mgrVars, pauseVars, download_file, url_call, envVars, diskVars, regVars,
                   all_ts_segments, final_ts_files,
                   pending_downloads, completed_segment_names, total_chunks,
                   completed_chunks, total_bytes, taskVars, mpc, last_data, obs>>

\* DownloadManager::cancel_task: the flag of a registered task is set
CancelTask == cancelled' = (IF registered THEN TRUE ELSE cancelled)

\* variant that purges the temp directory after a failure as well (C19 depends on
\* the Err branch leaving the disk alone)
ReturnPurgesAlways ==
    /\ pc = "ret"
    /\ registered' = FALSE
    /\ cancelled' = TRUE
    /\ tempDir' = FALSE
    /\ segJson' = NoMetadataFile
    /\ progress' = [exists |-> FALSE, lines |-> <<>>]
    /\ part' = [i \in Seg |-> NoFile]
    /\ pc' = "idle"
    /\ obs' = [obs EXCEPT !.lastResult = result]
    /\ UNCHANGED <<mgrVars, pauseVars, download_file, url_call, envVars, result,
                   all_ts_segments,
                   final_ts_files,
                   pending_downloads,
                   completed_segment_names, total_chunks, completed_chunks, total_bytes,
                   taskVars, mpc, last_data, remux>>

\* start_download after download_m3u8 returned: cancel_task on Err, delete_task
\* (registry entry and temp directory removed) on an uncancelled Ok
Return ==
    /\ pc = "ret"
    /\ IF result # "ok"
       THEN /\ CancelTask
            /\ UNCHANGED <<registered, diskVars>>
       ELSE IF ~cancelled
            THEN /\ registered' = FALSE
                 /\ cancelled' = (IF registered THEN TRUE ELSE cancelled)
                 /\ IF registered
                    THEN /\ tempDir' = FALSE
                         /\ segJson' = NoMetadataFile
                         /\ progress' = [exists |-> FALSE, lines |-> <<>>]
                         /\ part' = [i \in Seg |-> NoFile]
                    ELSE UNCHANGED diskVars
            ELSE UNCHANGED <<regVars, diskVars>>
    /\ pc' = "idle"
    /\ obs' = [obs EXCEPT !.lastResult = result]
    /\ UNCHANGED <<mgrVars, pauseVars, download_file, url_call, envVars, result,
                   all_ts_segments,
                   final_ts_files,
                   pending_downloads,
                   completed_segment_names, total_chunks, completed_chunks, total_bytes,
                   taskVars, mpc, last_data, remux>>

\* ------------------------------------------- the monitor (download_monitor.rs)
IsMerge == total_chunks > 0 /\ completed_chunks = total_chunks

\* variant whose completion arm comes before the cancel arm (C29 depends on the
\* order of the arms)
StatusInfoMergeFirst(is_cancelled, is_paused, is_merge) ==
    IF is_merge THEN 3
    ELSE IF is_cancelled THEN 0
    ELSE IF is_paused THEN 1
    ELSE 2

\* match (is_cancelled, is_paused, is_merge): the first arm that fits
StatusInfo(is_cancelled, is_paused, is_merge) ==
    IF is_cancelled THEN 0
    ELSE IF is_paused THEN 1
    ELSE IF ~is_merge THEN 2
    ELSE 3

\* total_bytes_valid: set by DownloadMetrics::new, and no caller clears it
TotalBytesValid == TRUE

\* (x * 100).clamp(0, 100), then round() as u32, of the ratio num / den: the
\* nearest integer, a half going up
RoundedPercent(num, den) ==
    LET r == (200 * num + den) \div (2 * den)
    IN  IF r < 0 THEN 0 ELSE IF r > 100 THEN 100 ELSE r

\* DownloadMetrics::get_progress: by bytes while total_bytes_valid, else by chunks
GetProgress(valid, total, done, chunks, chunks_total) ==
    IF valid
    THEN (IF total = 0 THEN 0 ELSE RoundedPercent(done, total))
    ELSE (IF chunks_total = 0 THEN 0 ELSE RoundedPercent(chunks, chunks_total))

\* the chunks that lie in the buffers of the fetches under way
RECURSIVE Buffered(_)
Buffered(S) ==
    IF S = {} THEN 0
    ELSE LET i == CHOOSE j \in S : TRUE
         IN  got[i] + Buffered(S \ {i})

\* downloaded_bytes is not followed chunk by chunk: a tick reads one of the values
\* the counter can hold, the sizes the admission added (the same that make up
\* total_bytes) plus the chunks record_chunk counted in this run, those of failed
\* attempts included; the least values and the greatest one are tried
DownloadedBytes ==
    LET least == Buffered(Seg)
        most == MAX_RETRIES * MaxSeg * MaxChunks
    IN  {total_bytes + k * BlockLen : k \in (least..(least + MaxSeg * MaxChunks)) \cup {most}}

\* current_data: the fields of the event that the run decides (the speed and the
\* byte counters of the details are left out)
CurrentData(is_cancelled, is_paused, is_merge, progress_) ==
    [status |-> StatusInfo(is_cancelled, is_paused, is_merge), isMerge |-> is_merge,
     progress |-> progress_,
     chunks |-> completed_chunks, total_chunks |-> total_chunks]

\* variant that stops on a cancel without the event of that tick (C28 depends on
\* the emit coming before the exit test)
MonitorTickQuietExit ==
    /\ mpc = "run"
    /\ ~paused
    /\ \E downloaded \in DownloadedBytes :
         last_data' = IF cancelled THEN last_data
                      ELSE <<CurrentData(cancelled, paused, IsMerge,
                                         GetProgress(TotalBytesValid, total_bytes, downloaded,
                                                     completed_chunks, total_chunks))>>
    /\ mpc' = IF cancelled \/ IsMerge THEN "done" ELSE "run"
    /\ UNCHANGED <<mgrVars, pauseVars, download_file, url_call, envVars, diskVars, regVars,
                   mainVars,
                   taskVars, remux, obs>>

\* one pass of the loop with the pause flag clear: the tick passes the 200 ms gate,
\* the flag and the counters are read, the event is emitted when it differs from
\* last_data, the loop ends on cancel or completion
MonitorTick ==
    /\ mpc = "run"
    /\ ~paused
    /\ \E downloaded \in DownloadedBytes :
         last_data' = <<CurrentData(cancelled, paused, IsMerge,
                                    GetProgress(TotalBytesValid, total_bytes, downloaded,
                                                completed_chunks, total_chunks))>>
    /\ mpc' = IF cancelled \/ IsMerge THEN "done" ELSE "run"
    /\ UNCHANGED <<mgrVars, pauseVars, download_file, url_call, envVars, diskVars, regVars,
                   mainVars,
                   taskVars, remux, obs>>

\* ------------------------------------------------------------ the outside
\* the run has not yet taken its last look at the cancel flag
BeforeLastCheck == pc \in {"load", "admit", "spawn", "join", "check", "await_monitor"}

\* cancel_download(id) while the download runs
CancelDownload ==
    /\ pc \notin {"idle"}
    /\ registered
    /\ ~cancelled
    /\ CancelTask
    /\ obs' = [obs EXCEPT !.extCancel = @ \/ BeforeLastCheck]
    /\ UNCHANGED <<mgrVars, pauseVars, download_file, url_call, envVars, diskVars, registered,
                   mainVars, taskVars, mpc,
                   last_data, remux>>

\* tokio::fs::remove_dir_all(temp_dir)
RemoveDirAll ==
    /\ tempDir' = FALSE
    /\ segJson' = NoMetadataFile
    /\ progress' = [exists |-> FALSE, lines |-> <<>>]
    /\ part' = [i \in Seg |-> NoFile]

\* delete_download(id) while the download runs: delete_task on a registered id
\* (entry removed, flag set, directory removed), else the directory alone
DeleteDownload ==
    /\ pc \notin {"idle"}
    /\ registered \/ tempDir
    /\ IF registered
       THEN /\ registered' = FALSE
            /\ cancelled' = TRUE
            /\ obs' = [obs EXCEPT !.extCancel = @ \/ (BeforeLastCheck /\ ~cancelled)]
       ELSE UNCHANGED <<regVars, obs>>
    /\ IF tempDir THEN RemoveDirAll ELSE UNCHANGED diskVars
    /\ UNCHANGED <<mgrVars, pauseVars, download_file, url_call, envVars, mainVars, taskVars,
                   mpc,
                   last_data, remux>>

Running == pc # "idle" \/ ~TasksEnded \/ mpc = "run"

\* the process is killed: memory is lost, the disk stays
Kill ==
    /\ Running
    /\ registered' = FALSE
    /\ cancelled' = FALSE
    /\ pc' = "idle"
    /\ result' = "none"
    /\ tpc' = [i \in Seg |-> "none"]
    /\ attempt' = [i \in Seg |-> 0]
    /\ got' = [i \in Seg |-> 0]
    /\ resp' = [i \in Seg |-> 0]
    /\ tres' = [i \in Seg |-> "none"]
    /\ permits' = 0
    /\ mpc' = "none"
    /\ last_data' = <<>>
    /\ obs' = [obs EXCEPT !.lastResult = "killed"]
    /\ UNCHANGED <<mgrVars, pauseVars, download_file, url_call, envVars, diskVars,
                   all_ts_segments,
                   final_ts_files,
                   pending_downloads, completed_segment_names, total_chunks,
                   completed_chunks, total_bytes, remux>>

\* ------------------------------------------------------------------- Next
Next ==
    \/ StartDownload
    \/ LoadOrParse
    \/ Admit
    \/ Spawn
    \/ \E i \in Seg : Acquire(i)
    \/ \E i \in Seg : LoopTop(i)
    \/ \E i \in Seg : NetError(i)
    \/ \E i \in Seg : RecvChunk(i)
    \/ \E i \in Seg : BodySkipped(i)
    \/ \E i \in Seg : DecryptError(i)
    \/ \E i \in Seg : BodyWritten(i)
    \/ \E i \in Seg : WriteError(i)
    \/ \E i \in Seg : BackoffDone(i)
    \/ \E i \in Seg : AppendManifest(i)
    \/ \E i \in Seg : CountCompleted(i)
    \/ JoinTasks
    \/ FinalCheck
    \/ AwaitMonitor
    \/ Merge
    \/ Return
    \/ MonitorTick
    \/ CancelDownload

Spec == Init /\ [][Next]_vars

\* the runtime keeps the monitor's interval ticking: a tick that would emit or end
\* the loop is not put off for ever (the 200 ms gate lets the next tick through)
SpecLive == Init /\ [][Next]_vars /\ WF_vars(MonitorTick)

NextResume == Next \/ Kill

SpecResume == InitResume /\ [][NextResume]_vars

\* one call during which delete_download(id) may arrive
NextDelete ==
    \/ Next
    \/ DeleteDownload
    \/ MetadataWriteError
    \/ ManifestOpenError
    \/ \E i \in Seg : CreateError(i)

SpecDelete == Init /\ [][NextDelete]_vars

\* --------------------------- step 1 of download_m3u8, one await after another
ParseFrame ==
    UNCHANGED <<mgrVars, pauseVars, download_file, url_call, envVars, progress, part, regVars,
                final_ts_files,
                pending_downloads,
                completed_segment_names, total_chunks, completed_chunks, total_bytes,
                taskVars, mpc, last_data, remux>>

\* segments.json is there: it is read and deserialized, no request is made
LoadMetadata ==
    /\ pc = "load"
    /\ segJson.exists
    /\ tempDir' = TRUE
    /\ IF ~segJson.whole
       THEN /\ pc' = "ret"
            /\ result' = "err_json"
            /\ UNCHANGED all_ts_segments
       ELSE /\ all_ts_segments' = FromMetadata(segJson.items)
            /\ IF all_ts_segments' = <<>>
               THEN pc' = "ret" /\ result' = "err_no_segments"
               ELSE pc' = "admit" /\ result' = result
    /\ UNCHANGED <<segJson, obs>>
    /\ ParseFrame

\* no segments.json: the playlist is requested and the response is validated
FetchPlaylist ==
    /\ pc = "load"
    /\ ~segJson.exists
    /\ tempDir' = TRUE
    /\ \E status \in PlaylistStatuses, content_type \in PlaylistContentTypes :
         /\ obs' = [obs EXCEPT !.playlistGets = @ + 1,
                               !.response = <<[status |-> status,
                                               content_type |-> content_type]>>]
         /\ IF ValidateM3u8Response(status, playlist, content_type) = "ok"
            THEN pc' = "parse" /\ result' = result
            ELSE pc' = "ret" /\ result' = "err_playlist"
    /\ UNCHANGED <<segJson, all_ts_segments>>
    /\ ParseFrame

\* request.send() or raw_response.text() of the playlist fails
PlaylistNetError ==
    /\ pc = "load"
    /\ ~segJson.exists
    /\ tempDir' = TRUE
    /\ obs' = [obs EXCEPT !.playlistGets = @ + 1]
    /\ pc' = "ret"
    /\ result' = "err_net"
    /\ UNCHANGED <<segJson, all_ts_segments>>
    /\ ParseFrame

\* the line loop with its key requests: a request that gets no answer returns the
\* error, any answer is taken for the key
ParseBody ==
    /\ pc = "parse"
    /\ \E srv \in KeyServers :
         IF KeyFetches(playlist) = 0
         THEN /\ all_ts_segments' = ParsePlaylist(playlist, srv)
              /\ pc' = "save"
              /\ UNCHANGED <<result, obs>>
         ELSE IF srv = "neterr"
         THEN /\ obs' = [obs EXCEPT !.keyGets = @ + 1, !.keyServer = <<srv>>]
              /\ pc' = "ret"
              /\ result' = "err_key"
              /\ UNCHANGED all_ts_segments
         ELSE /\ obs' = [obs EXCEPT !.keyGets = @ + KeyFetches(playlist),
                                    !.keyServer = <<srv>>]
              /\ all_ts_segments' = ParsePlaylist(playlist, srv)
              /\ pc' = "save"
              /\ UNCHANGED result
    /\ UNCHANGED <<tempDir, segJson>>
    /\ ParseFrame

\* tokio::fs::write, first half: segments.json is created (or truncated)
CreateMetadata ==
    /\ pc = "save"
    /\ segJson' = TornMetadataFile
    /\ pc' = "write"
    /\ UNCHANGED <<tempDir, result, all_ts_segments, obs>>
    /\ ParseFrame

\* tokio::fs::write, second half: the serialized list is written to its end; then
\* the test for an empty list
WriteMetadata ==
    /\ pc = "write"
    /\ segJson' = MetadataFile(ToMetadata(all_ts_segments))
    /\ IF all_ts_segments = <<>>
       THEN pc' = "ret" /\ result' = "err_no_segments"
       ELSE pc' = "admit" /\ result' = result
    /\ UNCHANGED <<tempDir, all_ts_segments, obs>>
    /\ ParseFrame

\* the first step of successive calls on every body, the process killed at any point
NextParse ==
    \/ StartDownload
    \/ LoadMetadata
    \/ FetchPlaylist
    \/ PlaylistNetError
    \/ ParseBody
    \/ CreateMetadata
    \/ WriteMetadata
    \/ Return
    \/ Kill

InitParse ==
    /\ InitCommon
    /\ playlist \in Bodies
    /\ concurrency = 1
    /\ build = "release"
    /\ flaky = {}
    /\ errBudget = 0
    /\ errLeft = 0
    /\ runsLeft = MaxRuns

SpecParse == InitParse /\ [][NextParse]_vars

\* ------------------------------------- the registry (download_manager.rs)
\* DownloadControl::new
NewControl == [paused |-> FALSE, cancelled |-> FALSE]

\* DownloadControl::cancel on the control of call c
ControlCancel(c) == [calls EXCEPT ![c].control.cancelled = TRUE]

\* DownloadManager::add_task: HashMap::insert
MgrAddTask(id, c) == tasks' = [tasks EXCEPT ![id] = c]

\* DownloadManager::cancel_task: the control of the entry, if any, is cancelled
MgrCancelTask(id) ==
    /\ calls' = IF tasks[id] # 0 THEN ControlCancel(tasks[id]) ELSE calls
    /\ UNCHANGED <<tasks, dirs>>

\* variant that leaves the control of the removed entry alone (C18 depends on the
\* cancel)
MgrDeleteTaskNoCancel(id) ==
    IF tasks[id] # 0
    THEN /\ tasks' = [tasks EXCEPT ![id] = 0]
         /\ calls' = calls
         /\ dirs' = dirs \ {id}
    ELSE UNCHANGED <<tasks, calls, dirs>>

\* DownloadManager::delete_task: the entry, if any, is removed, its control is
\* cancelled and its temp directory is removed
MgrDeleteTask(id) ==
    IF tasks[id] # 0
    THEN /\ tasks' = [tasks EXCEPT ![id] = 0]
         /\ calls' = ControlCancel(tasks[id])
         /\ dirs' = dirs \ {id}
    ELSE UNCHANGED <<tasks, calls, dirs>>

\* remove_dir_all of delete_task fails on a directory that is not there
MgrDeleteTaskOk(id) == tasks[id] = 0 \/ id \in dirs

RegistryFrame == UNCHANGED <<pauseVars, download_file, url_call, envVars, diskVars, regVars,
                             mainVars,
                             taskVars, mpc,
                             last_data, remux, obs>>

\* start_download(id) up to the call of download_m3u8: the temp directory is created
\* when absent, a DownloadTask with a new control is added
CmdStart(id) ==
    /\ Len(calls) < MaxCalls
    /\ dirs' = dirs \cup {id}
    /\ calls' = Append(calls, [id |-> id, control |-> NewControl, live |-> TRUE])
    /\ MgrAddTask(id, Len(calls) + 1)
    /\ last' = [op |-> "start", id |-> id, prev |-> tasks[id], ok |-> TRUE]
    /\ RegistryFrame

\* cancel_download(id)
CmdCancel(id) ==
    /\ MgrCancelTask(id)
    /\ last' = [op |-> "cancel", id |-> id, prev |-> tasks[id], ok |-> TRUE]
    /\ RegistryFrame

\* delete_download(id): delete_task when the id is registered, else the temp
\* directory is removed when it exists
CmdDelete(id) ==
    /\ IF tasks[id] # 0
       THEN MgrDeleteTask(id)
       ELSE dirs' = dirs \ {id} /\ UNCHANGED <<tasks, calls>>
    /\ last' = [op |-> "delete", id |-> id, prev |-> tasks[id], ok |-> MgrDeleteTaskOk(id)]
    /\ RegistryFrame

\* download_m3u8 of call c has returned: cancel_task on Err, delete_task on an Ok
\* whose control is not cancelled, nothing on a cancelled Ok
CmdReturn(c) ==
    /\ c \in 1..Len(calls)
    /\ calls[c].live
    /\ \E err \in BOOLEAN :
         LET id == calls[c].id
             ended == [calls EXCEPT ![c].live = FALSE]
         IN  IF err
             THEN /\ calls' = IF tasks[id] # 0
                               THEN [ended EXCEPT ![tasks[id]].control.cancelled = TRUE]
                               ELSE ended
                  /\ UNCHANGED <<tasks, dirs>>
                  /\ last' = [op |-> "failed", id |-> id, prev |-> tasks[id], ok |-> FALSE]
             ELSE IF ~calls[c].control.cancelled
             THEN /\ tasks' = [tasks EXCEPT ![id] = 0]
                  /\ calls' = IF tasks[id] # 0
                               THEN [ended EXCEPT ![tasks[id]].control.cancelled = TRUE]
                               ELSE ended
                  /\ dirs' = IF tasks[id] # 0 THEN dirs \ {id} ELSE dirs
                  /\ last' = [op |-> "completed", id |-> id, prev |-> tasks[id],
                              ok |-> MgrDeleteTaskOk(id)]
             ELSE /\ calls' = ended
                  /\ UNCHANGED <<tasks, dirs>>
                  /\ last' = [op |-> "cancelled", id |-> id, prev |-> tasks[id], ok |-> TRUE]
    /\ RegistryFrame

NextRegistry ==
    \/ \E id \in Ids : CmdStart(id)
    \/ \E id \in Ids : CmdCancel(id)
    \/ \E id \in Ids : CmdDelete(id)
    \/ \E c \in 1..MaxCalls : CmdReturn(c)

\* no download is followed: the engine's variables stay as constructed
InitRegistry ==
    /\ InitCommon
    /\ playlist = Playlist(MaxSeg)
    /\ concurrency = 1
    /\ build = "release"
    /\ flaky = {}
    /\ errBudget = 0
    /\ errLeft = 0
    /\ runsLeft = 0

SpecRegistry == InitRegistry /\ [][NextRegistry]_vars

\* one call in which the fetch of one segment may fail on every attempt, under
\* either build
InitExhaust ==
    /\ InitCommon
    /\ playlist \in Playlists
    /\ concurrency \in 1..MaxConc
    /\ build \in Builds
    /\ flaky \in {{i} : i \in Seg}
    /\ errBudget = MAX_RETRIES
    /\ errLeft = 0
    /\ runsLeft = 1

SpecExhaust == InitExhaust /\ [][Next]_vars

\* the steps of the task of segment i: its requests, sleeps and file operations
TaskStep(i) ==
    \/ Acquire(i)
    \/ LoopTop(i)
    \/ NetError(i)
    \/ RecvChunk(i)
    \/ BodySkipped(i)
    \/ DecryptError(i)
    \/ BodyWritten(i)
    \/ WriteError(i)
    \/ BackoffDone(i)
    \/ AppendManifest(i)
    \/ CountCompleted(i)

\* the steps of download_m3u8 itself
MainStep == LoadOrParse \/ Admit \/ Spawn \/ JoinTasks \/ FinalCheck \/ AwaitMonitor \/ Merge

\* the runtime goes on with every spawned task that can go on: a request, a
\* sleep and a file operation end, a free permit is handed out, the interval
\* ticks; nobody has to cancel and start_download need not go on after the return
Fairness ==
    /\ WF_vars(MainStep)
    /\ \A i \in Seg : WF_vars(TaskStep(i))
    /\ WF_vars(MonitorTick)

\* one call on the encrypted playlist with fewer permits than segments, in which
\* the fetch of one segment may fail on every attempt, under either build
InitTerm ==
    /\ InitCommon
    /\ playlist = Playlist(0)
    /\ concurrency = 1
    /\ build \in Builds
    /\ flaky \in {{i} : i \in Seg}
    /\ errBudget = MAX_RETRIES
    /\ errLeft = 0
    /\ runsLeft = 1

SpecTerm == InitTerm /\ [][Next]_vars /\ Fairness

\* ------------------------------ download_file from the end of the body on
\* the segment indices the IV is derived from
IvIndices == {0, 1, 255, 256, 1000000}

\* the bodies a call has buffered: whole blocks, the last one carrying a pad
Buffers == {[blocks |-> n, pad |-> p] : n \in 1..2, p \in PadChoices}

\* the bindings a descriptor carries: none, a 16-byte key without and with a
\* 16-byte IV, a key that is an error page, a key with an IV of one byte
Encryptions ==
    {<<>>,
     EncryptionInfo(KeyResponse("ok", 1), <<>>),
     EncryptionInfo(KeyResponse("ok", 1), IvOf(IvAttr("0x", 2 * BlockLen))),
     EncryptionInfo(KeyResponse("status404", 1), <<>>),
     EncryptionInfo(KeyResponse("ok", 1), IvOf(IvAttr("0x", 2)))}

\* n.to_le_bytes() on `width` bytes
RECURSIVE ToLeBytes(_, _)
ToLeBytes(n, width) ==
    IF width = 0 THEN <<>> ELSE <<n % 256>> \o ToLeBytes(n \div 256, width - 1)

\* n.to_be_bytes() on `width` bytes
RECURSIVE ToBeBytes(_, _)
ToBeBytes(n, width) ==
    IF width = 0 THEN <<>> ELSE Append(ToBeBytes(n \div 256, width - 1), n % 256)

\* variant that writes the index in little-endian order (C35 depends on the order)
IndexIvLittleEndian(index) == [j \in 1..8 |-> 0] \o ToLeBytes(index, 8)

\* vec![0u8; 16] with iv[8..16] = (index as u64).to_be_bytes()
IndexIv(index) == [j \in 1..8 |-> 0] \o ToBeBytes(index, 8)

\* enc.iv.unwrap_or_else(..): the IV of the binding, or the one made of the index
IvVec(enc, index) ==
    IF enc.iv # <<>> THEN [len |-> enc.iv[1].len, given |-> TRUE, bytes |-> <<>>]
    ELSE [len |-> BlockLen, given |-> FALSE, bytes |-> IndexIv(index)]

\* GenericArray::from_slice panics on a slice that is not 16 bytes long
FromSlicePanics(enc, iv_vec) == enc.key.len # BlockLen \/ iv_vec.len # BlockLen

\* the call has read its body to the end and passed the empty and markup tests
FileCall(index, encryption, buffer) ==
    [pc |-> "decrypt", index |-> index, encryption |-> encryption, buffer |-> buffer,
     data |-> <<>>, file |-> <<>>]

\* download_file is called and its body ends, not empty and no markup
CallDownloadFile ==
    /\ download_file.pc = "none"
    /\ \E index \in IvIndices, encryption \in Encryptions, buffer \in Buffers :
         download_file' = FileCall(index, encryption, buffer)
    /\ UNCHANGED <<mgrVars, pauseVars, url_call, envVars, diskVars, regVars, mainVars, taskVars,
                   mpc, last_data, remux, obs>>

\* the if let Some(enc) = encryption block: data is the plaintext of the buffer
\* under the key and iv_vec, or the buffer itself
DecryptBody ==
    /\ download_file.pc = "decrypt"
    /\ LET c == download_file
           enc == c.encryption
           len == DataLen(enc, c.buffer.blocks * BlockLen, c.buffer.pad)
       IN  IF enc = <<>>
           THEN download_file' =
                   [c EXCEPT !.pc = "write",
                             !.data = <<[of |-> c.buffer, key |-> <<>>, iv |-> <<>>,
                                         len |-> len]>>]
           ELSE IF FromSlicePanics(enc[1], IvVec(enc[1], c.index))
           THEN download_file' = [c EXCEPT !.pc = "panic"]
           ELSE IF len < 0
           THEN download_file' = [c EXCEPT !.pc = "err"]
           ELSE download_file' =
                   [c EXCEPT !.pc = "write",
                             !.data = <<[of |-> c.buffer, key |-> <<enc[1].key>>,
                                         iv |-> <<IvVec(enc[1], c.index)>>,
                                         len |-> len]>>]
    /\ UNCHANGED <<mgrVars, pauseVars, url_call, envVars, diskVars, regVars, mainVars, taskVars,
                   mpc, last_data, remux, obs>>

\* File::create(output_path) and write_all(&data): Success
WriteData ==
    /\ download_file.pc = "write"
    /\ download_file' = [download_file EXCEPT !.pc = "success", !.file = download_file.data]
    /\ UNCHANGED <<mgrVars, pauseVars, url_call, envVars, diskVars, regVars, mainVars, taskVars,
                   mpc, last_data, remux, obs>>

NextFile == CallDownloadFile \/ DecryptBody \/ WriteData

\* one call of download_file on every index, binding and body; no run is followed
InitFile ==
    /\ InitCommon
    /\ playlist = Playlist(MaxSeg)
    /\ concurrency = 1
    /\ build = "release"
    /\ flaky = {}
    /\ errBudget = 0
    /\ errLeft = 0
    /\ runsLeft = 0

SpecFile == InitFile /\ [][NextFile]_vars

\* ------------------------------------- the URLs of segments and keys
\* a string is written as the sequence of its pieces: "/" and ":" are pieces of
\* their own, and so is a leading "http"
Bases ==
    {<<"http", "s", ":", "/", "/", "s", "/", "v.m3u8">>,
     <<"http", ":", "/", "/", "s", "/", "a", "/", "b", "/", "v.m3u8">>,
     <<"http", "s", ":", "/", "/", "s", ":", "8080", "/", "a", "/", "v.m3u8?t=1", "/", "2">>,
     <<"http", "s", ":", "/", "/", "s", "/", "a", "/", "v.m3u8">>,
     <<"http", "s", ":", "/", "/", "s">>}

\* the refs a playlist carries: relative, rooted, absolute, and relative ones
\* whose first letters are http
Refs ==
    {<<"s0.ts">>, <<"k.key">>,
     <<"seg", "/", "s0.ts">>, <<"..", "/", "s0.ts">>,
     <<"/", "p", "/", "s0.ts">>, <<"/", "k.key">>, <<"/", "/", "c", "/", "s0.ts">>,
     <<"http", ":", "/", "/", "c", "/", "s0.ts">>,
     <<"http", "s", ":", "/", "/", "c", "/", "k.key">>,
     <<"HTTP", ":", "/", "/", "c", "/", "s0.ts">>,
     <<"http", "s.ts">>, <<"http", "_seg", "/", "s0.ts">>, <<"http", "d", "/", "k.key">>}

\* s.starts_with("http")
StartsWithHttp(s) == Len(s) > 0 /\ s[1] = "http"

\* s.starts_with('/')
StartsWithSlash(s) == Len(s) > 0 /\ s[1] = "/"

Slashes(s) == {n \in 1..Len(s) : s[n] = "/"}

\* url.split("/").take(3).collect::<Vec<&str>>().join("/")
SplitTake3Join(url) ==
    IF Cardinality(Slashes(url)) < 3 THEN url
    ELSE LET third == CHOOSE n \in Slashes(url) :
                          Cardinality({m \in Slashes(url) : m < n}) = 2
         IN  SubSeq(url, 1, third - 1)

\* url.rsplit_once('/').unwrap().0
RsplitOnceHead(url) ==
    LET last_slash == CHOOSE n \in Slashes(url) : \A m \in Slashes(url) : m <= n
    IN  SubSeq(url, 1, last_slash - 1)

\* key_url of a key tag (download.rs:311-320)
KeyUrl(url, key_uri) ==
    IF StartsWithHttp(key_uri) THEN key_uri
    ELSE IF StartsWithSlash(key_uri) THEN SplitTake3Join(url) \o key_uri
    ELSE RsplitOnceHead(url) \o <<"/">> \o key_uri

\* ts_url of a segment line (download.rs:348-357)
TsUrl(url, line) ==
    IF StartsWithHttp(line) THEN line
    ELSE IF StartsWithSlash(line) THEN SplitTake3Join(url) \o line
    ELSE RsplitOnceHead(url) \o <<"/">> \o line

\* a ref of either kind is resolved against the playlist URL
ResolveUrl ==
    /\ url_call.pc = "none"
    /\ \E url \in Bases, ref \in Refs, kind \in {"segment", "key"} :
         url_call' = [pc |-> "done", url |-> url, ref |-> ref, kind |-> kind,
                      resolved |-> IF kind = "key" THEN KeyUrl(url, ref) ELSE TsUrl(url, ref)]
    /\ UNCHANGED <<mgrVars, pauseVars, download_file, envVars, diskVars, regVars, mainVars,
                   taskVars, mpc, last_data, remux, obs>>

NextUrl == ResolveUrl

\* one resolution on every playlist URL and ref; no run is followed
InitUrl ==
    /\ InitCommon
    /\ playlist = Playlist(MaxSeg)
    /\ concurrency = 1
    /\ build = "release"
    /\ flaky = {}
    /\ errBudget = 0
    /\ errLeft = 0
    /\ runsLeft = 0

SpecUrl == InitUrl /\ [][NextUrl]_vars

\* ------------------- the monitor and its DownloadControl, step by step
\* Notify::notify_waiters: the Notified futures that exist are woken, no permit
\* is kept for one created later
NotifyWaiters == notified' = IF notified = "waiting" THEN "woken" ELSE notified

PauseFrame ==
    UNCHANGED <<mgrVars, download_file, url_call, envVars, diskVars, registered, mainVars,
                taskVars, remux, obs>>

\* DownloadControl::pause
Pause ==
    /\ mpc \in {"run", "register", "wait", "tick"}
    /\ ~paused
    /\ paused' = TRUE
    /\ UNCHANGED <<notified, cancelled, mpc, last_data>>
    /\ PauseFrame

\* DownloadControl::resume
Resume ==
    /\ mpc \in {"run", "register", "wait", "tick"}
    /\ paused
    /\ paused' = FALSE
    /\ NotifyWaiters
    /\ UNCHANGED <<cancelled, mpc, last_data>>
    /\ PauseFrame

\* DownloadControl::cancel
Cancel ==
    /\ mpc \in {"run", "register", "wait", "tick"}
    /\ ~cancelled
    /\ cancelled' = TRUE
    /\ NotifyWaiters
    /\ UNCHANGED <<paused, mpc, last_data>>
    /\ PauseFrame

\* while control.is_paused(): the test
MonitorPauseCheck ==
    /\ mpc = "run"
    /\ mpc' = IF paused THEN "register" ELSE "tick"
    /\ UNCHANGED <<paused, notified, cancelled, last_data>>
    /\ PauseFrame

\* control.get_notify().notified(): the future is created
MonitorRegister ==
    /\ mpc = "register"
    /\ notified' = "waiting"
    /\ mpc' = "wait"
    /\ UNCHANGED <<paused, cancelled, last_data>>
    /\ PauseFrame

\* .await of the future returns once it was woken; back to the test
MonitorWake ==
    /\ mpc = "wait"
    /\ notified = "woken"
    /\ notified' = "none"
    /\ mpc' = "run"
    /\ UNCHANGED <<paused, cancelled, last_data>>
    /\ PauseFrame

\* interval.tick().await and the rest of the loop body: the flags and the counters
\* are read, the event is emitted, the loop ends on cancel or completion
MonitorTickBody ==
    /\ mpc = "tick"
    /\ \E downloaded \in DownloadedBytes :
         last_data' = <<CurrentData(cancelled, paused, IsMerge,
                                    GetProgress(TotalBytesValid, total_bytes, downloaded,
                                                completed_chunks, total_chunks))>>
    /\ mpc' = IF cancelled \/ IsMerge THEN "done" ELSE "run"
    /\ UNCHANGED <<paused, notified, cancelled>>
    /\ PauseFrame

MonitorStep == MonitorPauseCheck \/ MonitorRegister \/ MonitorWake \/ MonitorTickBody

NextPause == Pause \/ Resume \/ Cancel \/ MonitorStep

\* run_monitor_task has just been spawned, on counters as some run left them
InitPause ==
    /\ tasks = [id \in Ids |-> 0]
    /\ calls = <<>>
    /\ dirs = {}
    /\ last = NoCommand
    /\ paused = FALSE
    /\ notified = "none"
    /\ download_file = NoCall
    /\ url_call = NoCall
    /\ tempDir = TRUE
    /\ segJson = NoMetadataFile
    /\ progress = [exists |-> FALSE, lines |-> <<>>]
    /\ part = [i \in Seg |-> NoFile]
    /\ registered = TRUE
    /\ cancelled = FALSE
    /\ pc = "join"
    /\ result = "none"
    /\ all_ts_segments = <<>>
    /\ final_ts_files = <<>>
    /\ pending_downloads = <<>>
    /\ completed_segment_names = {}
    /\ total_chunks \in 1..MaxSeg
    /\ completed_chunks \in 0..total_chunks
    /\ total_bytes \in {0, BlockLen}
    /\ tpc = [i \in Seg |-> "none"]
    /\ attempt = [i \in Seg |-> 0]
    /\ got = [i \in Seg |-> 0]
    /\ resp = [i \in Seg |-> 0]
    /\ tres = [i \in Seg |-> "none"]
    /\ permits = 0
    /\ mpc = "run"
    /\ last_data = <<>>
    /\ remux = NoRemux
    /\ obs = FreshObs
    /\ playlist = Playlist(MaxSeg)
    /\ concurrency = 1
    /\ build = "release"
    /\ flaky = {}
    /\ errBudget = 0
    /\ errLeft = 0
    /\ runsLeft = 0

\* the runtime runs the monitor task whenever it can go on; nobody has to call
\* pause, resume or cancel
SpecPause == InitPause /\ [][NextPause]_vars /\ WF_vars(MonitorStep)

\* ============================================================= properties
ManifestNames == {progress.lines[k] : k \in 1..Len(progress.lines)}

Listed(i) == FileName(LocalPath(i)) \in ManifestNames

NonEmpty(f) == f.exists /\ f.len > 0

\* the run got as far as the completeness check
RunChecked ==
    \/ pc \in {"await_monitor", "await_monitor_failed", "merge"}
    \/ pc = "ret" /\ result \in {"ok", "err_missing", "err_merge"}
    \/ pc = "idle" /\ obs.lastResult \in {"ok", "err_missing", "err_merge"}

\* C1: every filename appended to progress.dat names a part file that exists with
\* size > 0, for every segment, encrypted or not
C1_ListedFilesNonEmpty ==
    \A i \in Seg : Listed(i) => NonEmpty(part[i])

\* the sum of the sizes of the part files of the segments in S
RECURSIVE SizeSum(_)
SizeSum(S) ==
    IF S = {} THEN 0
    ELSE LET i == CHOOSE j \in S : TRUE
         IN  part[i].len + SizeSum(S \ {i})

\* C2: at admission a segment is left out of the queue and counted in
\* completed_chunks (total_bytes growing by its size) if and only if its name is in
\* progress.dat and its part file exists with size > 0; every other segment is
\* enqueued exactly once, and the remux list still holds all N segments
C2_AdmissionIffListedAndNonEmpty ==
    pc = "spawn" =>
        LET done == {i \in Seg : Listed(i) /\ NonEmpty(part[i])}
        IN  /\ \A i \in Seg : (i \notin IndexSet(pending_downloads)) <=> (i \in done)
            /\ Len(pending_downloads) = Cardinality(IndexSet(pending_downloads))
            /\ completed_chunks = Cardinality(done)
            /\ total_bytes = SizeSum(done)
            /\ final_ts_files = [k \in 1..MaxSeg |-> LocalPath(k - 1)]

\* a rerun on a retained temp directory admits one finished segment and enqueues a listed one
\* whose part file is not there with a size > 0
C2_Witness ==
    /\ pc = "spawn"
    /\ obs.runNo = 2
    /\ obs.dirKept
    /\ completed_chunks = 1
    /\ \E i \in IndexSet(pending_downloads) : Listed(i)

\* C3: a second run on the temp directory of a first run that completed every
\* segment issues no segment GET and hands the remux the same input list
C3_SecondRunFetchesNothing ==
    (obs.prevAllDone /\ obs.dirKept) =>
        /\ obs.fetched = {}
        /\ (remux.called /\ obs.prevRemux # <<>>) => remux.files = obs.prevRemux

\* C4: whenever the remux collaborator is invoked, its input list is exactly
\* part_0.ts .. part_{N-1}.ts in ascending index, whatever the completion order of
\* the tasks and whether the descriptors were parsed or loaded from segments.json
C4_RemuxInPlaylistOrder ==
    remux.called => remux.files = [k \in 1..MaxSeg |-> LocalPath(k - 1)]

\* the second run loaded its descriptors from segments.json, the tasks finished
\* in descending index, and the remux ran
C4_Witness ==
    /\ remux.called
    /\ obs.runNo = 2
    /\ obs.dirKept
    /\ Len(progress.lines) = MaxSeg
    /\ progress.lines[1] = FileName(LocalPath(MaxSeg - 1))

\* C5: the remux collaborator is invoked only if, after every task was joined,
\* completed_chunks equalled total_chunks and the cancel flag was clear at the
\* final check
C5_RemuxOnlyWhenComplete ==
    remux.called =>
        /\ AllJoinedOk
        /\ obs.allDone
        /\ ~obs.cancelAtCheck
        /\ completed_chunks = total_chunks

\* every task succeeded, the check passed and the remux ran
C5_Witness ==
    /\ remux.called
    /\ \A i \in Seg : tres[i] = "success"
    /\ result = "ok"

\* C6: whenever the remux collaborator is invoked, every file of its input list
\* exists with size > 0 at that moment
C6_RemuxInputsNonEmpty ==
    remux.called => remux.complete

\* the lines of progress.dat are kept, in order
ManifestKept ==
    /\ progress.exists => progress'.exists
    /\ Len(progress'.lines) >= Len(progress.lines)
    /\ SubSeq(progress'.lines, 1, Len(progress.lines)) = progress.lines

\* C7: once the cancel flag is set the run deletes neither progress.dat nor a part
\* file whose name is in progress.dat
C7_CancelKeepsFinishedFiles ==
    [][cancelled =>
         /\ ManifestKept
         /\ \A i \in Seg : (Listed(i) /\ part[i].exists) => part'[i].exists]_vars

\* C8: when attempt MAX_RETRIES of a segment ends in an error, the cancel flag is
\* set when the task returns its error, download_m3u8 returns an error and the temp
\* directory is retained
Exhausted(i) == tres[i] = "err"

C8_ExhaustionCancelsAndFails ==
    (\E i \in Seg : Exhausted(i)) =>
        /\ cancelled
        /\ tempDir
        /\ ~remux.called
        /\ pc \in {"join", "ret", "idle"}
        /\ pc = "ret" => result = "err_task"
        /\ pc = "idle" => obs.lastResult = "err_task"

\* a segment failed MAX_RETRIES times and start_download got the error back
C8_Witness ==
    /\ \E i \in Seg : Exhausted(i)
    /\ errLeft = 0
    /\ pc = "idle"
    /\ obs.lastResult = "err_task"
    /\ part # [i \in Seg |-> NoFile]

\* C9: a response with a non-2xx status is never written to the part file nor
\* appended to progress.dat
Is2xx(st) == st \in 200..299

C9_Non2xxNeverWritten ==
    \A i \in Seg : tpc[i] \in {"written", "appended"} => Is2xx(resp[i])

\* C10: a Skipped outcome ends the task with no retry, no manifest append and no
\* increment of completed_chunks; a run with a Skipped segment whose cancel flag
\* is clear at the final check forces the flag, does not remux and returns the
\* resumable error
Skipped(i) == tres[i] = "skipped"

C10_SkippedFailsRun ==
    /\ \A i \in Seg : Skipped(i) =>
          /\ tpc[i] = "done"
          /\ attempt[i] = 0
          /\ ~Listed(i)
          /\ completed_chunks = Cardinality({j \in Seg : tres[j] = "success"})
    /\ ((\E i \in Seg : Skipped(i)) /\ RunChecked /\ ~obs.cancelAtCheck) =>
          /\ cancelled
          /\ ~remux.called
          /\ pc # "merge"
          /\ pc = "ret" => result = "err_missing"
          /\ pc = "idle" => obs.lastResult = "err_missing"

\* a segment was skipped, its sibling succeeded, nobody cancelled, and the run
\* returned the resumable error
C10_Witness ==
    /\ \E i \in Seg : Skipped(i)
    /\ \E i \in Seg : tres[i] = "success"
    /\ ~obs.cancelAtCheck
    /\ pc = "idle"
    /\ obs.lastResult = "err_missing"

\* C12: once the cancel flag is true, no filename is appended to progress.dat and
\* completed_chunks does not change
C12_NothingRecordedAfterCancel ==
    [][cancelled => (progress'.lines = progress.lines /\ completed_chunks' = completed_chunks)]_vars

\* C13: when download_m3u8 returns after the tasks were spawned, every spawned
\* segment task has terminated
C13_TasksEndedAtReturn ==
    pc = "ret" => TasksEnded

\* C14: when download_m3u8 returns after the reporter was started, the reporter
\* task has terminated
C14_MonitorEndedAtReturn ==
    pc = "ret" => mpc # "run"

\* the segment tasks that hold a permit of the semaphore
Holders == {i \in Seg : tpc[i] \in {"loop", "stream", "backoff", "written", "appended"}}

\* C15: at most `concurrency` segment tasks hold a permit, so at most `concurrency`
\* fetches are in flight; a task keeps its permit until it returns, backoff included
C15_PermitsBoundTasks ==
    /\ Cardinality(Holders) <= concurrency
    /\ pc = "join" => permits = concurrency - Cardinality(Holders)
    /\ Cardinality({i \in Seg : tpc[i] = "stream"}) <= concurrency

\* with one permit, a task sleeps in its backoff while its sibling waits in the queue
C15_Witness ==
    /\ concurrency = 1
    /\ \E i \in Seg : tpc[i] = "backoff"
    /\ \E i \in Seg : tpc[i] = "queued"
    /\ permits = 0

\* C19: start_download returning from a normal completion leaves the id out of the
\* registry and the temp directory purged; returning from a cancellation or a
\* failure it leaves the temp directory with segments.json, progress.dat and the
\* part files as they are
C19_PurgeOnlyOnCompletion ==
    [][(pc = "ret" /\ pc' = "idle") =>
          IF result = "ok" /\ ~cancelled
          THEN /\ ~registered'
               /\ ~tempDir'
               /\ ~segJson'.exists /\ ~progress'.exists
               /\ \A i \in Seg : ~part'[i].exists
          ELSE /\ tempDir'
               /\ segJson'.exists /\ progress'.exists
               /\ UNCHANGED diskVars]_vars

\* a run completed normally and its temp directory is gone
C19_Witness ==
    /\ pc = "idle"
    /\ obs.lastResult = "ok"
    /\ obs.allDone
    /\ remux.called
    /\ ~registered
    /\ ~tempDir

\* C20: completed_chunks never decreases during a run and never exceeds
\* total_chunks: a segment is counted at admission or on Success, never both
C20_CompletedMonotoneAndBounded ==
    [][/\ completed_chunks' <= total_chunks'
       /\ obs'.runNo = obs.runNo => completed_chunks' >= completed_chunks]_vars

\* a rerun counted one segment at admission and the other on Success
C20_Witness ==
    /\ obs.runNo = 2
    /\ Len(pending_downloads) = 1
    /\ completed_chunks = total_chunks
    /\ \E i \in Seg : tres[i] = "success"

\* C11: a run that ends because the cancel flag was set from outside (cancel(id) or
\* delete(id)), no segment having exhausted its retries, returns Ok with the flag set
\* and without invoking the remux
C11_OutsideCancelReturnsOk ==
    (pc = "ret" /\ obs.extCancel) =>
        (result = "ok" /\ cancelled /\ ~remux.called)

\* C16: cancel(id) on a registered id removes the id from the registry and sets the
\* flag of its task, the temp directory staying in place; on an absent id it changes
\* nothing and reports no error
C16_CancelRemovesEntry ==
    last.op = "cancel" =>
        /\ last.ok
        /\ tasks[last.id] = 0
        /\ last.prev # 0 => (calls[last.prev].control.cancelled /\ last.id \in dirs)

\* C17: add(id, task) on a registered id leaves the existing entry in place; on an
\* absent id it makes the id present
C17_AddKeepsFirstEntry ==
    last.op = "start" =>
        /\ tasks[last.id] # 0
        /\ last.prev # 0 => tasks[last.id] = last.prev

C21_ReloadEqualsParse ==
    (pc = "admit" /\ obs.cached) =>
        /\ all_ts_segments = FromMetadata(segJson.items)
        /\ obs.keyServer = <<>>
        /\ \E srv \in KeyServers \ {"neterr"} :
              all_ts_segments = ParsePlaylist(playlist, srv)
        /\ \A k \in 1..Len(all_ts_segments) : all_ts_segments[k].index = k - 1

\* a second run reloaded two segments, the first clear and the second bound to a
\* key with an explicit IV
C21_Witness ==
    /\ pc = "admit"
    /\ obs.cached
    /\ obs.runNo = 2
    /\ Len(all_ts_segments) = 2
    /\ all_ts_segments[1].encryption = <<>>
    /\ all_ts_segments[2].encryption # <<>>
    /\ all_ts_segments[2].encryption[1].iv # <<>>

\* the URLs of a descriptor or metadata list, in order
Urls(items) == [k \in 1..Len(items) |-> items[k].url]

\* C22: segments.json is absent, or it is a complete list matching the playlist,
\* also after a kill at any step; and a run that finds it loads it without a
\* playlist or key request
C22_MetadataAbsentOrComplete ==
    /\ segJson.exists =>
          /\ segJson.whole
          /\ Urls(segJson.items) = Urls(ParsePlaylist(playlist, "ok"))
    /\ obs.cached => (obs.playlistGets = 0 /\ obs.keyGets = 0)

\* the playlist response of this run fails the validation the specification asks for
ResponseInvalid ==
    /\ obs.response # <<>>
    /\ LET r == obs.response[1]
       IN  \/ ~Is2xx(r.status)
           \/ r.content_type # <<>> /\ r.content_type[1].needles = {}
           \/ ~StartsWithMarker(playlist, 1)

\* C23: a playlist response that fails validation makes download_m3u8 return an
\* error with one playlist request made, no segments.json written, no key or
\* segment requested and no reporter started
C23_InvalidPlaylistIsFatal ==
    ResponseInvalid =>
        /\ pc \in {"ret", "idle"}
        /\ pc = "ret" => result = "err_playlist"
        /\ pc = "idle" => obs.lastResult \in {"err_playlist", "killed"}
        /\ obs.playlistGets = 1
        /\ ~segJson.exists
        /\ obs.keyGets = 0
        /\ obs.fetched = {}
        /\ all_ts_segments = <<>>
        /\ mpc = "none"

\* a body with key tags and segments came under status 200 with a Content-Type
\* that matches nothing, and start_download got the error back
C23_Witness ==
    /\ pc = "idle"
    /\ obs.lastResult = "err_playlist"
    /\ obs.response # <<>>
    /\ obs.response[1].status = 200
    /\ obs.response[1].content_type # <<>>
    /\ StartsWithMarker(playlist, 1)
    /\ KeyFetches(playlist) > 0
    /\ Len(ParsePlaylist(playlist, "ok")) > 0

\* C24: a key request that gets no answer or a non-2xx answer is fatal: the run
\* returns an error, no descriptor is bound to a key taken from that answer,
\* segments.json is not written and no segment is requested
C24_KeyFetchFailureIsFatal ==
    (obs.keyServer # <<>> /\ obs.keyServer[1] \in {"neterr", "status404"}) =>
        /\ pc \in {"ret", "idle"}
        /\ pc = "ret" => result = "err_key"
        /\ pc = "idle" => obs.lastResult \in {"err_key", "killed"}
        /\ all_ts_segments = <<>>
        /\ ~segJson.exists
        /\ obs.fetched = {}

\* segment i's task sends a GET in this step
FetchStarts(i) == tpc[i] # "stream" /\ tpc'[i] = "stream"

\* segment i's attempt ends in Err in this step: back off, give up, or panic
AttemptFails(i) ==
    /\ tpc[i] = "stream"
    /\ \/ tpc'[i] = "backoff"
       \/ tpc'[i] = "done" /\ tres'[i] \in {"err", "panic"}

SpecBaseSecs(a) == IF a >= 5 THEN 10 ELSE 2 ^ (a - 1)

\* C26: the backoff behind every failed attempt a, 1 <= a < MAX_RETRIES, has the
\* base min(2^(a-1), 10) seconds, so that with a jitter below one second the sleep
\* lies between 1 s and 11 s
C26_BackoffBetween1And11 ==
    \A i \in Seg :
        tpc[i] = "backoff" =>
            /\ attempt[i] \in 1..(MAX_RETRIES - 1)
            /\ BaseDelaySecs(attempt[i]) = SpecBaseSecs(attempt[i])
            /\ BaseDelaySecs(attempt[i]) \in 1..10

\* C27: a fetch that sees the cancel flag set at a chunk returns Cancelled: the
\* chunk is not buffered or counted, no file stays at local_path, and the task
\* returns without a manifest append, an increment of completed_chunks or a retry
C27_CancelledFetchLeavesNothing ==
    [][\A i \in Seg :
          /\ (tres'[i] = "cancelled" /\ tres[i] # "cancelled") =>
                /\ cancelled
                /\ tpc[i] = "stream"
                /\ tpc'[i] = "done"
                /\ got'[i] <= got[i]
                /\ part'[PartIndex(Descriptor(i).local_path)] = NoFile
                /\ progress' = progress
                /\ completed_chunks' = completed_chunks
                /\ obs'.fetched = obs.fetched
          /\ (tres[i] = "cancelled" /\ obs'.runNo = obs.runNo) =>
                /\ tpc'[i] = "done"
                /\ tres'[i] = "cancelled"
                /\ attempt'[i] = attempt[i]]_vars

\* a fetch was cancelled at its chunk while its sibling had succeeded, and the run
\* returned Ok
C27_Witness ==
    /\ \E i \in Seg : tres[i] = "cancelled" /\ ~part[i].exists /\ ~Listed(i)
    /\ \E i \in Seg : tres[i] = "success"
    /\ pc = "ret"
    /\ result = "ok"

\* C28: the reporter ends at a tick exactly when that tick sees the cancel flag
\* set or completed_chunks = total_chunks > 0, the event of that tick being emitted
\* before it ends; and once one of the two holds the reporter does end
C28_ReporterEndsOnCancelOrCompletion ==
    /\ [][(mpc = "run" /\ mpc' = "done") =>
             /\ cancelled \/ (total_chunks > 0 /\ completed_chunks = total_chunks)
             /\ last_data' # <<>>
             /\ last_data'[1].status = (IF cancelled THEN 0 ELSE 3)
             /\ last_data'[1].chunks = completed_chunks
             /\ last_data'[1].total_chunks = total_chunks]_vars
    /\ [][(mpc = "run" /\ mpc' = "run" /\ last_data' # last_data) =>
             ~(cancelled \/ (total_chunks > 0 /\ completed_chunks = total_chunks))]_vars
    /\ (mpc = "run" /\ (cancelled \/ (total_chunks > 0 /\ completed_chunks = total_chunks)))
          ~> (mpc = "done")

\* the reporter saw the cancel flag after one segment was counted, emitted the
\* event of that tick and ended
C28_Witness ==
    /\ mpc = "done"
    /\ last_data # <<>>
    /\ last_data[1].status = 0
    /\ last_data[1].chunks = 1
    /\ total_chunks = MaxSeg

\* C29: every event the reporter emits has a status among 0, 2, 3: 0 exactly when
\* the tick saw the cancel flag set (also when every segment is complete), else 3
\* exactly when completed_chunks = total_chunks > 0, else 2
C29_StatusOfEverySnapshot ==
    [][(last_data' # last_data /\ last_data' # <<>>) =>
          LET e == last_data'[1]
              complete == total_chunks > 0 /\ completed_chunks = total_chunks
          IN  /\ e.status \in {0, 2, 3}
              /\ e.status = 0 <=> cancelled
              /\ ~cancelled => (e.status = 3 <=> complete)
              /\ e.status = 2 <=> (~cancelled /\ ~complete)]_vars

\* the flag was set after the last segment was counted and before the tick: the
\* event says cancelled, not complete
C29_Witness ==
    /\ mpc = "done"
    /\ last_data # <<>>
    /\ last_data[1].status = 0
    /\ last_data[1].chunks = total_chunks
    /\ total_chunks > 0

\* C30: when the remux is invoked the reporter has ended, and the last event it
\* emitted has status 3 and chunks = total_chunks; no event of the run follows
C30_LastEventBeforeRemux ==
    (pc = "merge" \/ remux.called) =>
        /\ mpc = "done"
        /\ last_data # <<>>
        /\ last_data[1].status = 3
        /\ last_data[1].chunks = total_chunks
        /\ last_data[1].total_chunks = total_chunks

\* the remux ran on a run of MaxSeg fetched segments whose last event said 3
C30_Witness ==
    /\ remux.called
    /\ pc = "ret"
    /\ result = "ok"
    /\ total_chunks = MaxSeg
    /\ \A i \in Seg : tres[i] = "success"
    /\ last_data # <<>>
    /\ last_data[1].status = 3

\* completed_chunks / total_chunks * 100, clamped to [0, 100] and rounded
ChunkPercent(chunks, chunks_total) ==
    IF chunks_total = 0 THEN 0 ELSE RoundedPercent(chunks, chunks_total)

\* C31: the progress of every emitted event is completed_chunks / total_chunks * 100
\* clamped to [0, 100] and rounded, on fresh and on resumed runs: below 100 while a
\* segment is incomplete, and above 0 once a segment of a fresh run is complete
C31_ProgressIsChunkRatio ==
    last_data # <<>> =>
        last_data[1].progress = ChunkPercent(last_data[1].chunks, last_data[1].total_chunks)

\* the playlist was fetched and its lines were scanned to the end in this run
FreshlyParsed == pc \in {"save", "write"} \/ (pc = "admit" /\ ~obs.cached)

\* the positions of the lines that end in .ts
TsPositions(lines) == {n \in 1..Len(lines) : lines[n].kind = "ts"}

\* the position of the last #EXT-X-KEY tag in front of line n, 0 when there is none
LastKeyBefore(lines, n) ==
    LET keys == {m \in 1..(n - 1) : lines[m].kind = "key"}
    IN  IF keys = {} THEN 0 ELSE CHOOSE m \in keys : \A o \in keys : o <= m

\* METHOD equals AES-128, case-insensitive
DeclaresAes128(line) == line.method \in {"AES-128", "aes-128"}

\* the answer of the key server of this run
KeyAnswer(uri) == KeyResponse(IF obs.keyServer = <<>> THEN "ok" ELSE obs.keyServer[1], uri)

\* C32: the parser emits one descriptor per line ending in .ts, in line order, with
\* indices 0..N-1 and local path part_{index}.ts, each bound to the key of the last
\* #EXT-X-KEY tag in front of it when that tag's METHOD is AES-128 in any case, and
\* to no encryption when there is no such tag or its METHOD is anything else
C32_DescriptorPerTsLine ==
    FreshlyParsed =>
        /\ Len(all_ts_segments) = Cardinality(TsPositions(playlist))
        /\ \A n \in TsPositions(playlist) :
              LET k == Cardinality({m \in TsPositions(playlist) : m < n})
                  d == all_ts_segments[k + 1]
                  t == LastKeyBefore(playlist, n)
              IN  /\ d.index = k
                  /\ d.url = <<"url", playlist[n].ref>>
                  /\ d.local_path = [dir |-> "temp", name |-> <<"part", k, "ts">>]
                  /\ IF t # 0 /\ DeclaresAes128(playlist[t])
                     THEN /\ d.encryption # <<>>
                          /\ d.encryption[1].key = KeyAnswer(playlist[t].uri)
                     ELSE d.encryption = <<>>

\* a body of a clear segment, a key tag with a lower-case method and a second
\* segment was scanned to its end
C32_Witness ==
    /\ pc = "save"
    /\ Len(all_ts_segments) = 2
    /\ all_ts_segments[1].encryption = <<>>
    /\ all_ts_segments[2].encryption # <<>>
    /\ \E n \in 1..Len(playlist) : playlist[n].kind = "key" /\ playlist[n].method = "aes-128"

\* the hex-decoding of an IV attribute behind its 0x or 0X prefix
DecodedIv(iv_str) == <<[len |-> iv_str[1].digits \div 2]>>

\* C33: an AES-128 key tag with an IV attribute, behind a 0x or a 0X prefix, binds
\* an explicit IV equal to the hex-decoding of the attribute without its prefix;
\* the attribute is never dropped
C33_IvAttributeKept ==
    FreshlyParsed =>
        \A n \in TsPositions(playlist) :
            LET k == Cardinality({m \in TsPositions(playlist) : m < n})
                t == LastKeyBefore(playlist, n)
            IN  (t # 0 /\ DeclaresAes128(playlist[t]) /\ playlist[t].iv # <<>>) =>
                    /\ all_ts_segments[k + 1].encryption # <<>>
                    /\ all_ts_segments[k + 1].encryption[1].iv = DecodedIv(playlist[t].iv)

\* an encryption binding with a key of 16 bytes and, when it has one, an IV of 16 bytes
WellSized(encryption) ==
    encryption # <<>> =>
        /\ encryption[1].key.len = 16
        /\ encryption[1].iv # <<>> => encryption[1].iv[1].len = 16

\* C34: every EncryptionInfo bound to a descriptor, parsed or reloaded from
\* segments.json, has a key of exactly 16 bytes and, when present, an IV of exactly
\* 16 bytes, whatever the length of the key response and of the IV attribute
C34_KeyAndIvAre16Bytes ==
    /\ \A k \in 1..Len(all_ts_segments) : WellSized(all_ts_segments[k].encryption)
    /\ \A k \in 1..Len(segJson.items) : WellSized(segJson.items[k].encryption)

\* the 16 bytes the specification derives from the indices it names
SpecIndexIv(i) ==
    [j \in 1..13 |-> 0] \o
    (CASE i = 0 -> <<0, 0, 0>>
       [] i = 1 -> <<0, 0, 1>>
       [] i = 255 -> <<0, 0, 255>>
       [] i = 256 -> <<0, 1, 0>>
       [] i = 1000000 -> <<15, 66, 64>>)

IsAbsolute(ref) ==
    \/ Len(ref) >= 4 /\ SubSeq(ref, 1, 4) = <<"http", ":", "/", "/">>
    \/ Len(ref) >= 5 /\ SubSeq(ref, 1, 5) = <<"http", "s", ":", "/", "/">>

\* the first three /-separated parts of base, with the two "/" between them
RECURSIVE SchemeAndAuthority(_, _)
SchemeAndAuthority(base, parts) ==
    IF base = <<>> THEN <<>>
    ELSE IF Head(base) = "/"
    THEN (IF parts = 1 THEN <<>> ELSE <<"/">> \o SchemeAndAuthority(Tail(base), parts - 1))
    ELSE <<Head(base)>> \o SchemeAndAuthority(Tail(base), parts)

\* base up to and including its last "/"
RECURSIVE UpToLastSlash(_)
UpToLastSlash(base) ==
    IF base = <<>> \/ base[Len(base)] = "/" THEN base
    ELSE UpToLastSlash(SubSeq(base, 1, Len(base) - 1))

\* the three rules of URL resolution, in order
Resolved(base, ref) ==
    IF IsAbsolute(ref) THEN ref
    ELSE IF ref # <<>> /\ Head(ref) = "/" THEN SchemeAndAuthority(base, 3) \o ref
    ELSE UpToLastSlash(base) \o ref

\* C36: a segment ref and a key ref are resolved by the same three rules: unchanged
\* if and only if the ref begins with http:// or https://, else scheme and authority
\* of the base followed by the ref when it begins with /, else the base up to and
\* including its last / followed by the ref
C36_UrlResolution ==
    url_call.pc = "done" =>
        /\ url_call.resolved = Resolved(url_call.url, url_call.ref)
        /\ (url_call.resolved = url_call.ref) <=> IsAbsolute(url_call.ref)

\* the segments the admission of this run counted without enqueueing them
CountedAtAdmission == total_chunks - Len(pending_downloads)

\* the lines this run has appended to progress.dat
AppendedInRun == Len(progress.lines) - obs.linesAtStart

\* C37: while download_m3u8 runs, completed_chunks never exceeds the segments
\* counted at admission plus the lines appended to progress.dat in this run: a task
\* counts its segment only after its append, and appends only after download_file
\* returned Success
C37_CountedOnlyAfterAppend ==
    pc # "idle" =>
        /\ completed_chunks <= CountedAtAdmission + AppendedInRun
        /\ \A i \in Seg : (tpc[i] = "appended" \/ tres[i] = "success") =>
              /\ Listed(i)
              /\ part[i].exists
        /\ Cardinality({i \in Seg : tpc[i] = "appended" \/ tres[i] = "success"})
              <= AppendedInRun

\* a resumed run counted one segment at admission; the task of the other one has
\* appended its line and not yet counted
C37_Witness ==
    /\ obs.runNo = 2
    /\ CountedAtAdmission = 1
    /\ AppendedInRun = 1
    /\ completed_chunks = 1
    /\ \E i \in Seg : tpc[i] = "appended"

\* the monitor is in its pause wait
InPauseWait == mpc \in {"register", "wait"}

\* C38: a cancel() called while the control is paused makes the monitor leave its
\* pause wait, emit an event of status 0 and end; the caller is not asked to
\* call resume() as well
C38_CancelEndsPausedMonitor ==
    (cancelled /\ paused /\ InPauseWait)
        ~> (~paused \/ (mpc = "done" /\ last_data # <<>> /\ last_data[1].status = 0))

\* C39: no wake-up is lost: whenever the pause flag is clear while the monitor is in
\* its pause wait, the monitor goes on to a further tick (or the flag is set again)
C39_NoLostWakeup ==
    (~paused /\ InPauseWait) ~> (paused \/ mpc \in {"tick", "done"})

\* download_m3u8 is not running: it was not called or it has returned
NotRunning == pc \in {"idle", "ret"}

\* C40: the call of download_m3u8 returns, whatever the attempts give, and no task
\* stays queued on the semaphore (a behaviour holds at most one call)
C40_DownloadReturns ==
    <>[](NotRunning /\ \A i \in Seg : tpc[i] # "queued")

\* every one of the MAX_RETRIES attempts of a segment failed, its task gave up and
\* download_m3u8 has returned the error
C40_Witness ==
    /\ pc = "ret"
    /\ result = "err_task"
    /\ errLeft = 0
    /\ \E i \in Seg : tpc[i] = "done" /\ tres[i] = "err"

====
